---- MODULE Spec2Model ----
(***************************************************************************)
(* Model of the hostile-drone combat AI of mech-sim: DroneManager          *)
(* (combat/drone_manager.py), the forced transitions of CamouflageSystem   *)
(* (systems/camouflage.py) and the channel pool of DroneAudioPool          *)
(* (audio/drone_pool.py).  Times are milliseconds of pygame.time.get_ticks,*)
(* distances are metres, probabilities are percentages.                    *)
(***************************************************************************)
EXTENDS Integers, Sequences, FiniteSets, TLC

----------------------------------------------------------------------------
(* Program constants (state/constants.py) *)

DRONE_SPAWN_INTERVAL == 10000
MIN_DRONES == 1
DEFAULT_DRONE_COUNT == 2

DRONE_DETECT_RANGE == 25
DRONE_LOSE_TRACK_RANGE == 50
DRONE_REACQUIRE_RANGE == 35
DRONE_ATTACK_RANGE == 40
DRONE_CAMO_DETECT_RANGE == 5
DRONE_CAMO_LOSE_TRACK_RANGE == 15
DRONE_CAMO_REACQUIRE_RANGE == 10

DRONE_SPAWN_DISTANCE_MIN == 15
DRONE_SPAWN_DISTANCE_MAX == 80
DRONE_SPAWN_DURATION_MIN == 1500
DRONE_SPAWN_DURATION_MAX == 2500
DRONE_DETECT_DURATION_MIN == 800
DRONE_DETECT_DURATION_MAX == 1500
DRONE_ATTACK_DURATION_MIN == 150
DRONE_ATTACK_DURATION_MAX == 300
DRONE_COOLDOWN_MIN == 800
DRONE_COOLDOWN_MAX == 2000
DRONE_SEARCH_TIMEOUT_MIN == 6000
DRONE_SEARCH_TIMEOUT_MAX == 10000
DRONE_ATTACK_STATE_DURATION == 200
DRONE_ATTACK_WINDUP_ENABLED == TRUE
COOLDOWN_PEEK_INTERVAL == 300
HESITATION_MIN == 300
HESITATION_MAX == 600

ATTACK_MIN_SHOTS_BEFORE_ADAPT == 4
ATTACK_FRUSTRATION_THRESHOLD == 20
ATTACK_ADAPTATION_ENABLED == TRUE
HISTORY_KEEP == 5

WOUNDED_HEALTH_THRESHOLD == 25
DISTRESS_BEACON_ENABLED == TRUE
DISTRESS_DAMAGE_THRESHOLD == 40
DISTRESS_HEALTH_THRESHOLD == 30
DISTRESS_BEACON_DURATION == 3000
DISTRESS_ALERT_RANGE == 60
\* DISTRESS_RESPONSE_SPEED_MULT = 1.3, in percent
DISTRESS_RESPONSE_SPEED_MULT_PCT == 130
SUPPRESSION_ENABLED == TRUE
SUPPRESSION_DAMAGE_THRESHOLD == 15
SUPPRESSION_TIME_WINDOW == 1000
SUPPRESSION_DURATION_MIN == 500
SUPPRESSION_DURATION_MAX == 1200
SUPPRESSION_COOLDOWN == 3000
WOUNDED_AGGRESSION_PCT == 40
WOUNDED_EVASION_PCT == 150
SEARCH_PATTERN_TYPES == {"spiral", "zigzag", "wander"}
SEARCH_EXPAND_ENABLED == TRUE
SEARCH_EXPAND_INTERVAL == 2000
SEARCH_EXPAND_MULTIPLIER_PCT == 130
SEARCH_EXPAND_MAX_MULT_PCT == 300
COORDINATION_INTERVAL == 200
CROSSFIRE_WINDOW == 500
SUPPORT_HOLD_MS == 500
COORDINATED_ASSAULT_ENABLED == TRUE
COORDINATED_ASSAULT_RANGE == 30
COORDINATED_ASSAULT_SYNC_WINDOW == 300
COORDINATED_ASSAULT_CONVERGE_ANGLE == 45

SOUND_DETECTION_ENABLED == TRUE
SOUND_DETECTION_RANGE == 100
CAMO_SOUND_DETECTION_RANGE_PCT == 50
CAMO_CONFUSION_ENABLED == TRUE
CAMO_CONFUSION_LOSE_LOCK_RANGE == 20
CAMO_REVEAL_DURATION == 3000
CAMO_REVEAL_EXTEND_MS == 500
FORCE_LOSE_RANGE == 15
CAMO_CONFUSION_DURATION == 800

HIT_CONFIRM_KILL_SOUND == TRUE
MISSILE_DAMAGE == 50
EMP_DAMAGE == 30
MISSILE_RANGE == 70
EMP_RANGE == 35
NO_DRONE_DISTANCE == 999
FULL_HEALTH == 100

DRONE_WEAPONS ==
  [pulse_cannon    |-> [damage |-> 2, range |-> 20, accuracy |-> 80,
                        shots_min |-> 4, shots_max |-> 10,
                        interval_min |-> 70, interval_max |-> 120],
   plasma_launcher |-> [damage |-> 4, range |-> 30, accuracy |-> 75,
                        shots_min |-> 6, shots_max |-> 12,
                        interval_min |-> 40, interval_max |-> 80],
   rail_gun        |-> [damage |-> 8, range |-> 45, accuracy |-> 70,
                        shots_min |-> 4, shots_max |-> 8,
                        interval_min |-> 100, interval_max |-> 160]]

WeaponNames == {"pulse_cannon", "plasma_launcher", "rail_gun"}

DRONE_PERSONALITIES ==
  [rookie    |-> [accuracy_mult |-> 70,  aggression |-> 30, hesitation_chance |-> 25,
                  evasion_skill |-> 60],
   veteran   |-> [accuracy_mult |-> 100, aggression |-> 50, hesitation_chance |-> 10,
                  evasion_skill |-> 100],
   ace       |-> [accuracy_mult |-> 120, aggression |-> 70, hesitation_chance |-> 5,
                  evasion_skill |-> 130],
   berserker |-> [accuracy_mult |-> 80,  aggression |-> 90, hesitation_chance |-> 0,
                  evasion_skill |-> 50]]

PersonalityTypes == {"rookie", "veteran", "ace", "berserker"}

PERSONALITY_WEAPON_PREFS ==
  [rookie    |-> [pulse_cannon |-> <<0, 18>>, plasma_launcher |-> <<15, 28>>,
                  rail_gun |-> <<25, 40>>],
   veteran   |-> [pulse_cannon |-> <<0, 15>>, plasma_launcher |-> <<12, 32>>,
                  rail_gun |-> <<28, 45>>],
   ace       |-> [pulse_cannon |-> <<0, 12>>, plasma_launcher |-> <<10, 30>>,
                  rail_gun |-> <<25, 50>>],
   berserker |-> [pulse_cannon |-> <<0, 10>>, plasma_launcher |-> <<8, 35>>,
                  rail_gun |-> <<30, 50>>]]

CHANNEL_TYPES ==
  {"ambient", "combat", "weapon", "debris", "takeoff", "passby", "supersonic"}

DroneStates ==
  {"spawning", "patrol", "detecting", "engaging", "winding_up", "attacking",
   "cooldown", "searching", "destroyed"}

----------------------------------------------------------------------------
(* Bounds of the exploration *)

StartTime == 10000     \* get_ticks() when the first frame after the menu runs
Horizon == 15000       \* time explored after StartTime
FineFrame == 40        \* frame period while a drone winds up or fires
CoarseFrame == 2500    \* frame period otherwise (a slow frame, always possible)
MaxCalls == 2          \* operations of the player in one run, two drones
MaxSoloCalls == 3      \* operations of the player in one run, one drone
MaxOverkill == 50      \* player fire stops once a wreck is this far below 0

NoVal == -1            \* a key that is absent from the drone dict
Distances == {5, 30, 70}
SpawnPersonalities == {"veteran"}
\* abs(altitude_diff) with the player flying level with the drones
Altitudes == {0}
\* state.player_x with the player standing still
Positions == {0}
\* random.choice(patterns) with one pattern followed
Patterns == {"spiral"}
\* one drone followed through its bursts: every personality, a distance
\* between the attack range and the last weapon band, three altitudes
BurstDistances == {5, 30, 42}
BurstPersonalities == {"rookie", "veteran", "ace", "berserker"}
BurstAltitudes == {0, 30, 60}
\* the player weapons explored: range of get_drones_in_range, damage dealt
PlayerWeapons ==
  {[range |-> EMP_RANGE, damage |-> EMP_DAMAGE],
   [range |-> MISSILE_RANGE, damage |-> MISSILE_DAMAGE]}

VARIABLES
  now,             \* pygame.time.get_ticks()
  max_drones,      \* DroneManager.max_drones (pool size chosen in the menu)
  drones,          \* DroneManager.drones: list of references to drone dicts
  heap,            \* the drone dicts, by reference
  spawn_timer,     \* DroneManager.spawn_timer
  cached,          \* DroneManager._cached_active_drones (references)
  dirty,           \* DroneManager._active_drones_dirty
  busy,            \* DroneAudioPool._channels: id -> channel types playing
  pool_active,     \* DroneAudioPool._active_drones
  game_over,       \* GameState.game_over
  camo_active,     \* GameState.camo_active
  camo_revealed,   \* GameState.camo_revealed
  camo_revealed_end,
  drones_to_remove, \* update(): the ids of the drones the last call removed
  events,          \* update(): the events the last call returned (spawned ids)
  calls,           \* operations of the player so far
  player_x,        \* self._player_x, cached at the head of update
  scenario         \* where the drones can be and who they are, in this run

vars == <<now, max_drones, drones, heap, spawn_timer, cached, dirty, busy,
          pool_active, game_over, camo_active, camo_revealed, camo_revealed_end,
          drones_to_remove, events, calls, player_x, scenario>>

----------------------------------------------------------------------------
(* Helpers *)

\* the operations of the player explored in one run
CallBudget == IF max_drones = MIN_DRONES THEN MaxSoloCalls ELSE MaxCalls

Min(a, b) == IF a <= b THEN a ELSE b

\* random.randint(a, b): the two ends of the range stand for the draw
RandInt(a, b) == {a, b}

SeqToSet(s) == {s[i] : i \in 1..Len(s)}

RECURSIVE RemoveFirst(_, _)
\* list.remove(x)
RemoveFirst(s, x) ==
  IF s = <<>> THEN <<>>
  ELSE IF Head(s) = x THEN Tail(s) ELSE <<Head(s)>> \o RemoveFirst(Tail(s), x)

\* a fresh object reference for a new drone dict
NewRef(h) == CHOOSE r \in 1..(Cardinality(DOMAIN h) + 1) : r \notin DOMAIN h

\* dicts that neither the drone list nor the cached list still reference
Collect(h, ds, c) == [r \in (SeqToSet(ds) \cup SeqToSet(c)) |-> h[r]]

----------------------------------------------------------------------------
(* DroneManager._spawn_drone: the new dict *)

\* 'speed': base_speed * personality['speed_mult'], the unit in which the
\* speed of the drone is counted (percent of its speed at spawn)
SpawnSpeed == 100

NewDrone(id, t, dist, pers) ==
  [id |-> id, state |-> "spawning", health |-> FULL_HEALTH, distance |-> dist,
   state_start |-> t, state_duration |-> NoVal, personality |-> pers,
   had_false_start |-> FALSE,
   shots_to_fire |-> 0, shots_fired |-> 0, last_shot_time |-> 0,
   next_shot_interval |-> 80, interval_min |-> 80, interval_max |-> 120,
   hits_this_burst |-> 0, attack_weapon |-> "unset",
   \* 'hit_chance' is absent until the first burst; kept with what it was computed from
   hit_chance |-> [weapon |-> "unset", altitude_diff |-> 0, chance |-> NoVal],
   weapon_history |-> <<>>, preferred_range |-> <<0, 0>>,
   cooldown_duration |-> NoVal, last_peek_time |-> NoVal,
   aggression |-> DRONE_PERSONALITIES[pers].aggression,
   evasion_skill |-> DRONE_PERSONALITIES[pers].evasion_skill,
   is_wounded |-> FALSE, distress_active |-> FALSE, distress_start_time |-> 0,
   is_suppressed |-> FALSE, suppression_end_time |-> 0,
   suppression_cooldown_end |-> 0, recent_damage |-> 0, damage_window_start |-> 0,
   tactic_role |-> "none", hold_fire_until |-> 0, last_coordination |-> 0,
   in_coordinated_assault |-> FALSE, assault_partner_id |-> NoVal,
   assault_converge_angle |-> 0,
   search_pattern |-> "none", search_waypoints |-> <<>>,
   search_waypoint_index |-> 0, search_expand_count |-> 0,
   last_search_expand |-> 0,
   \* last_known_x: whose position it is, and the position
   last_known |-> [of |-> "spawn", x |-> 0],
   \* absent until the first confusion
   confused_until |-> NoVal,
   speed |-> SpawnSpeed,
   burst_open |-> FALSE]

----------------------------------------------------------------------------
(* DroneManager._select_weapon: the weapons the call can return *)

\* distance * 0.7 + preferred_range * 0.3, times 10 * (number of good bursts)
BlendedDistance(d) ==
  IF ATTACK_ADAPTATION_ENABLED /\ d.preferred_range[2] > 0
     /\ d.preferred_range[1] > 0
  THEN [num |-> 7 * d.distance * d.preferred_range[2] + 3 * d.preferred_range[1],
        den |-> 10 * d.preferred_range[2]]
  ELSE [num |-> d.distance, den |-> 1]

ValidWeapons(d) ==
  LET x == BlendedDistance(d)
      prefs == PERSONALITY_WEAPON_PREFS[d.personality]
  IN {w \in WeaponNames :
        prefs[w][1] * x.den <= x.num /\ x.num <= prefs[w][2] * x.den}

SelectWeapon(d) ==
  LET x == BlendedDistance(d)
      valid == ValidWeapons(d)
      AtMost(k) == x.num <= k * x.den
  IN IF valid # {}
     THEN IF d.is_wounded /\ "pulse_cannon" \in valid THEN {"pulse_cannon"}
          ELSE IF d.personality = "berserker" /\ "rail_gun" \in valid
               THEN {"rail_gun"} \cup valid
          ELSE IF d.personality = "berserker" /\ "plasma_launcher" \in valid
               THEN {"plasma_launcher"} \cup valid
          ELSE IF d.personality = "ace" /\ AtMost(12) /\ "pulse_cannon" \in valid
               THEN {"pulse_cannon"}
          ELSE IF d.personality = "ace" /\ AtMost(30) /\ "plasma_launcher" \in valid
               THEN {"plasma_launcher"}
          ELSE IF d.personality = "ace" /\ "rail_gun" \in valid
               THEN {"rail_gun"}
          ELSE IF d.personality = "rookie" /\ "pulse_cannon" \in valid
               THEN {"pulse_cannon"} \cup valid
          ELSE valid
     ELSE IF AtMost(15) THEN {"pulse_cannon", "plasma_launcher"}
     ELSE IF AtMost(25) THEN {"pulse_cannon", "plasma_launcher"}
     ELSE IF AtMost(35) THEN {"plasma_launcher", "rail_gun"}
     ELSE IF AtMost(45) THEN {"rail_gun", "plasma_launcher"}
     ELSE {"none"}

\* DRONE_WEAPONS.get(weapon_type, DRONE_WEAPONS['pulse_cannon'])
WeaponOf(w) == IF w \in WeaponNames THEN DRONE_WEAPONS[w] ELSE DRONE_WEAPONS.pulse_cannon


----------------------------------------------------------------------------
(* Burst bookkeeping: _execute_attack, _log_attack_results,                *)
(* _update_attack_firing                                                   *)

\* hit chances are counted in parts of HIT_CHANCE_UNIT, which every division
\* of the computation leaves whole: 1.0 is HIT_CHANCE_UNIT
HIT_CHANCE_UNIT == 5400000
\* weapon['accuracy'] * accuracy_mult, both in percent
BaseAccuracy(w, pers) ==
  DRONE_WEAPONS[w].accuracy * DRONE_PERSONALITIES[pers].accuracy_mult
    * (HIT_CHANCE_UNIT \div 10000)
\* (distance / weapon['range']) * 0.2
DistancePenalty(w, distance) ==
  (distance * (HIT_CHANCE_UNIT \div 5)) \div DRONE_WEAPONS[w].range
\* min(0.3, altitude_diff / 150) above 20 m of altitude difference
AltitudePenalty(altitude_diff) ==
  IF altitude_diff > 20
    THEN Min((3 * HIT_CHANCE_UNIT) \div 10, altitude_diff * (HIT_CHANCE_UNIT \div 150))
    ELSE 0
HIT_CHANCE_FLOOR == HIT_CHANCE_UNIT \div 5

\* the hit chance without its floor
HitChanceNoFloor(w, pers, distance, altitude_diff) ==
  BaseAccuracy(w, pers) - DistancePenalty(w, distance) - AltitudePenalty(altitude_diff)

\* the hit chance of a burst, computed once in _execute_attack
HitChance(w, pers, distance, altitude_diff) ==
  LET hit_chance == BaseAccuracy(w, pers) - DistancePenalty(w, distance)
                      - AltitudePenalty(altitude_diff)
  IN IF hit_chance < HIT_CHANCE_FLOOR THEN HIT_CHANCE_FLOOR ELSE hit_chance

\* DroneManager._execute_attack: the dicts the call can leave behind
ExecuteAttack(d, gameOver) ==
  IF gameOver THEN {d}
  ELSE UNION {
         IF w = "none" THEN {d}
         ELSE {[d EXCEPT !.attack_weapon = w, !.shots_to_fire = n,
                         !.shots_fired = 0, !.last_shot_time = 0,
                         !.hits_this_burst = 0,
                         !.interval_min = DRONE_WEAPONS[w].interval_min,
                         !.interval_max = DRONE_WEAPONS[w].interval_max,
                         !.next_shot_interval = iv, !.burst_open = TRUE,
                         !.hit_chance =
                            [weapon |-> w, altitude_diff |-> alt,
                             chance |-> HitChance(w, d.personality, d.distance, alt)]]
                : n \in RandInt(DRONE_WEAPONS[w].shots_min, DRONE_WEAPONS[w].shots_max),
                  iv \in RandInt(DRONE_WEAPONS[w].interval_min,
                                 DRONE_WEAPONS[w].interval_max),
                  alt \in scenario.altitudes}
         : w \in SelectWeapon(d)}

\* weapon_history[-5:]
LastEntries(h) ==
  IF Len(h) > HISTORY_KEEP THEN SubSeq(h, Len(h) - HISTORY_KEEP + 1, Len(h)) ELSE h

RECURSIVE SumDistance(_)
SumDistance(h) == IF h = <<>> THEN 0 ELSE Head(h).distance + SumDistance(Tail(h))

\* [a for a in weapon_history if a['hit_rate'] >= 0.3]
SuccessfulAttacks(h) == SelectSeq(h, LAMBDA a : a.shots > 0 /\ 10 * a.hits >= 3 * a.shots)

\* DroneManager._log_attack_results
LogAttackResults(d, weapon_type, gameOver) ==
  IF gameOver THEN d
  ELSE IF ~ATTACK_ADAPTATION_ENABLED THEN [d EXCEPT !.hits_this_burst = 0]
  ELSE LET entry == [weapon |-> weapon_type, hits |-> d.hits_this_burst,
                     shots |-> d.shots_fired, distance |-> d.distance]
           hist == LastEntries(Append(d.weapon_history, entry))
           good == SuccessfulAttacks(hist)
       IN [d EXCEPT !.weapon_history = hist,
                    !.preferred_range =
                       IF good # <<>> THEN <<SumDistance(good), Len(good)>> ELSE @,
                    !.hits_this_burst = 0,
                    !.burst_open = FALSE]

\* a frustrated drone gives the burst up, without its budget
BreakOffZero(d) == [d EXCEPT !.shots_to_fire = 0]

\* "drone['shots_to_fire'] = new_shots_fired  # Stop firing more"
BreakOff(d) == [d EXCEPT !.shots_to_fire = d.shots_fired]

\* what follows a shot in _update_attack_firing: the next interval, the
\* frustration break-off and the log of a finished burst
AfterShot(d1, weapon_type, budget, gameOver) ==
  UNION {
    LET d2 == [d1 EXCEPT !.next_shot_interval = iv]
        frustrated == /\ d2.shots_fired >= ATTACK_MIN_SHOTS_BEFORE_ADAPT
                      /\ 100 * d2.hits_this_burst
                           < ATTACK_FRUSTRATION_THRESHOLD * d2.shots_fired
        goOn == IF d2.shots_fired >= budget
                THEN LogAttackResults(d2, weapon_type, gameOver) ELSE d2
    IN IF frustrated
       THEN {LogAttackResults(BreakOff(d2), weapon_type, gameOver),
             goOn}
       ELSE {goOn}
    : iv \in RandInt(d1.interval_min, d1.interval_max)}

\* random.random() < hit_chance, and whether apply_damage ended the game
ShotOutcomes ==
  {[hit |-> FALSE, over |-> FALSE], [hit |-> TRUE, over |-> FALSE],
   [hit |-> TRUE, over |-> TRUE]}

\* DroneManager._update_attack_firing: results (dict, channels played, player
\* hit, game over after the shot)
UpdateAttackFiring(d, t, gameOver) ==
  IF gameOver THEN {[d |-> d, play |-> {}, hit |-> FALSE, over |-> gameOver]}
  ELSE IF d.shots_fired < d.shots_to_fire /\ t - d.last_shot_time >= d.next_shot_interval
  THEN LET weapon_type == IF d.attack_weapon = "unset" THEN "pulse_cannon"
                          ELSE d.attack_weapon
           play == IF weapon_type \in WeaponNames THEN {"combat"} ELSE {}
       IN UNION {
            LET d1 == [d EXCEPT !.hits_this_burst = IF ho.hit THEN @ + 1 ELSE @,
                                !.shots_fired = d.shots_fired + 1,
                                !.last_shot_time = t]
            IN {[d |-> d3, play |-> play, hit |-> ho.hit, over |-> ho.over]
                  : d3 \in AfterShot(d1, weapon_type, d.shots_to_fire, ho.over)}
            : ho \in ShotOutcomes}
  ELSE {[d |-> d, play |-> {}, hit |-> FALSE, over |-> gameOver]}

----------------------------------------------------------------------------
(* DroneManager._update_drone_state *)

Quiet(d, gameOver) == [d |-> d, play |-> {}, hit |-> FALSE, over |-> gameOver]
Sound(d, ch, gameOver) == [d |-> d, play |-> {ch}, hit |-> FALSE, over |-> gameOver]

\* the value of state_duration once "if 'state_duration' not in drone" has run
Durations(d, fresh) == IF d.state_duration = NoVal THEN fresh ELSE {d.state_duration}

\* drone['last_known_x'] = self._player_x, in an update
Tracked(d) == [d EXCEPT !.last_known = [of |-> "player", x |-> player_x']]

FsmSpawning(d0, t, gameOver) ==
  {LET d == [d0 EXCEPT !.state_duration = dur]
   IN IF t - d.state_start >= d.state_duration
      THEN Quiet([d EXCEPT !.state = "patrol", !.state_start = t,
                           !.state_duration = NoVal], gameOver)
      ELSE Quiet(d, gameOver)
   : dur \in Durations(d0, RandInt(DRONE_SPAWN_DURATION_MIN, DRONE_SPAWN_DURATION_MAX))}

\* a patrol that opens fire as soon as the player is in range
FsmPatrolOpensFire(d, detect_range, t, gameOver) ==
  IF d.distance <= detect_range
  THEN {Sound([d EXCEPT !.state = "winding_up", !.state_start = t], "combat", gameOver)}
  ELSE {Quiet(d, gameOver)}

\* a patrol that detects the player at any distance
FsmPatrolSeesAll(d, detect_range, t, gameOver) ==
  {Sound([d EXCEPT !.state = "detecting", !.state_start = t], "combat", gameOver)}

FsmPatrol(d, detect_range, t, gameOver) ==
  IF d.distance <= detect_range
  THEN {Sound(Tracked([d EXCEPT !.state = "detecting", !.state_start = t]),
              "combat", gameOver)}
  ELSE {Quiet(d, gameOver)}

\* randint(DETECT_MIN, DETECT_MAX), plus randint(300, 600) when hesitating
DetectDurations(d) ==
  LET base == RandInt(DRONE_DETECT_DURATION_MIN, DRONE_DETECT_DURATION_MAX)
  IN base \cup
     (IF DRONE_PERSONALITIES[d.personality].hesitation_chance > 0
      THEN {DRONE_DETECT_DURATION_MAX + h : h \in {HESITATION_MAX}}
      ELSE {})

FsmDetecting(d0, t, gameOver) ==
  UNION {
    LET d == [Tracked(d0) EXCEPT !.state_duration = dur]
    IN IF t - d.state_start >= d.state_duration
       THEN (IF ~d.had_false_start
             THEN {Quiet([d EXCEPT !.state = "patrol", !.state_start = t,
                                   !.had_false_start = TRUE,
                                   !.state_duration = NoVal], gameOver)}
             ELSE {})
            \cup
            {Quiet([d EXCEPT !.state = "engaging", !.state_start = t,
                             !.state_duration = NoVal,
                             !.had_false_start = FALSE], gameOver)}
       ELSE {Quiet(d, gameOver)}
    : dur \in Durations(d0, DetectDurations(d0))}

\* DroneManager._play_attack_windup: the weapon is pre-selected and stored
PlayAttackWindup(d) == {[d EXCEPT !.attack_weapon = w] : w \in SelectWeapon(d)}

\* drone['aggression'] in percent
Aggression(d) == d.aggression

\* [d for d in self.drones if d['id'] != drone['id'] and d['state'] in (...)]
OtherCombatDrones(h, ds, r) ==
  SelectSeq(ds, LAMBDA o : h[o].id # h[r].id
                           /\ h[o].state \in {"engaging", "attacking", "winding_up"})

\* an assault whose two drones converge from the same side
StartAssaultSameSide(h, r, o, t) ==
  [h EXCEPT ![r].in_coordinated_assault = TRUE,
            ![r].assault_partner_id = h[o].id,
            ![r].assault_converge_angle = COORDINATED_ASSAULT_CONVERGE_ANGLE,
            ![o].assault_converge_angle = COORDINATED_ASSAULT_CONVERGE_ANGLE,
            ![r].hold_fire_until = t + COORDINATED_ASSAULT_SYNC_WINDOW,
            ![o].hold_fire_until = t + COORDINATED_ASSAULT_SYNC_WINDOW]

\* the drone r initiates a coordinated assault with the drone o
StartAssault(h, r, o, t) ==
  [h EXCEPT ![r].in_coordinated_assault = TRUE,
            ![r].assault_partner_id = h[o].id,
            ![r].assault_converge_angle = COORDINATED_ASSAULT_CONVERGE_ANGLE,
            ![o].assault_converge_angle = -COORDINATED_ASSAULT_CONVERGE_ANGLE,
            ![r].hold_fire_until = t + COORDINATED_ASSAULT_SYNC_WINDOW,
            ![o].hold_fire_until = t + COORDINATED_ASSAULT_SYNC_WINDOW]

\* DroneManager._coordinate_tactics: the heaps it can leave, with the channels
\* played on the calling drone's id
CoordinateTactics(h, ds, r, t) ==
  IF t - h[r].last_coordination < COORDINATION_INTERVAL
  THEN {[heap |-> h, play |-> {}]}
  ELSE
    LET h1 == [h EXCEPT ![r].last_coordination = t]
        others == OtherCombatDrones(h1, ds, r)
    IN IF others = <<>>
       THEN {[heap |-> [h1 EXCEPT ![r].tactic_role = "primary"], play |-> {}]}
       ELSE
         LET o == others[1]
         IN IF h1[o].state \in {"attacking", "winding_up"}
            THEN IF t - h1[o].state_start < CROSSFIRE_WINDOW
                 THEN {[heap |-> [h1 EXCEPT ![r].tactic_role = "crossfire"], play |-> {}]}
                 ELSE {[heap |-> [h1 EXCEPT ![r].tactic_role = "support"], play |-> {}],
                       [heap |-> [h1 EXCEPT ![r].tactic_role = "support",
                                            ![r].hold_fire_until = t + SUPPORT_HOLD_MS],
                        play |-> {}]}
            ELSE
              LET mine == Aggression(h1[r]) > Aggression(h1[o])
                  h2 == [h1 EXCEPT ![r].tactic_role = IF mine THEN "primary" ELSE "flanker",
                                   ![o].tactic_role = IF mine THEN "flanker" ELSE "primary"]
              IN IF COORDINATED_ASSAULT_ENABLED
                    /\ h2[r].distance <= COORDINATED_ASSAULT_RANGE
                    /\ h2[o].distance <= COORDINATED_ASSAULT_RANGE
                    /\ ~h2[r].in_coordinated_assault
                 THEN {[heap |-> StartAssault(h2, r, o, t), play |-> {"combat"}]}
                 ELSE {[heap |-> h2, play |-> {}]}

FsmEngaging(d0, lose_track_range, t, gameOver) ==
  LET d == Tracked(d0) IN
  IF d.distance > lose_track_range
  THEN {Sound([d EXCEPT !.state = "searching", !.state_start = t], "combat", gameOver)}
  ELSE IF d.distance <= DRONE_ATTACK_RANGE
  THEN IF t < d.hold_fire_until THEN {Quiet(d, gameOver)}
       ELSE IF DRONE_ATTACK_WINDUP_ENABLED
       THEN {Sound(d2, "combat", gameOver)
               : d2 \in PlayAttackWindup([d EXCEPT !.state = "winding_up",
                                                   !.state_start = t])}
       ELSE {Quiet(d2, gameOver)
               : d2 \in ExecuteAttack([d EXCEPT !.state = "attacking",
                                                !.state_start = t], gameOver)}
  ELSE {Quiet(d, gameOver)}

\* a wind-up that fires at the first update
FsmWindingUpAtOnce(d0, t, gameOver) ==
  {Quiet(Tracked(d2), gameOver)
     : d2 \in ExecuteAttack([d0 EXCEPT !.state = "attacking", !.state_start = t,
                                       !.state_duration = NoVal], gameOver)}

FsmWindingUp(d0, t, gameOver) ==
  UNION {
    LET d == [d0 EXCEPT !.state_duration = dur]
    IN IF t - d.state_start >= d.state_duration
       THEN {Quiet(Tracked(d2), gameOver)
               : d2 \in ExecuteAttack([d EXCEPT !.state = "attacking",
                                                !.state_start = t,
                                                !.state_duration = NoVal], gameOver)}
       ELSE {Quiet(Tracked(d), gameOver)}
    : dur \in Durations(d0, RandInt(DRONE_ATTACK_DURATION_MIN, DRONE_ATTACK_DURATION_MAX))}

\* DroneManager._generate_search_waypoints: five waypoints of a spiral, four
\* of a zigzag or a wander, and then the last known position
SearchWaypoints(pattern, last_known) ==
  [k \in 1..(IF pattern = "spiral" THEN 5 ELSE 4) |-> [of |-> "waypoint", x |-> k]]
    \o <<last_known>>

\* 1.0 + search_expand_count * (SEARCH_EXPAND_MULTIPLIER - 1.0), in percent
ExpandMultiplier(count) == 100 + count * (SEARCH_EXPAND_MULTIPLIER_PCT - 100)

\* "if not drone.get('search_pattern')": the dicts the initialisation can leave
SearchInit(d, t) ==
  IF d.search_pattern = "none"
  THEN {[d EXCEPT !.search_pattern = pattern,
                  !.search_waypoints = SearchWaypoints(pattern, d.last_known),
                  !.search_waypoint_index = 0,
                  !.search_expand_count = 0,
                  !.last_search_expand = t] : pattern \in scenario.patterns}
  ELSE {d}

\* the expanding search radius
SearchExpand(d, t) ==
  IF SEARCH_EXPAND_ENABLED /\ t - d.last_search_expand >= SEARCH_EXPAND_INTERVAL
  THEN LET d1 == [d EXCEPT !.last_search_expand = t]
       IN IF ExpandMultiplier(d1.search_expand_count) < SEARCH_EXPAND_MAX_MULT_PCT
          THEN [d1 EXCEPT !.search_expand_count = @ + 1,
                          !.search_waypoints =
                             SearchWaypoints(d1.search_pattern, d1.last_known),
                          !.search_waypoint_index = 0]
          ELSE d1
  ELSE d

\* the move toward the current waypoint: the index advances when it is reached
SearchMove(d, reached) ==
  IF d.search_waypoints # <<>> /\ d.search_waypoint_index < Len(d.search_waypoints)
     /\ reached
  THEN [d EXCEPT !.search_waypoint_index = @ + 1]
  ELSE d

FsmSearching(d0, reacquire_range, t, gameOver) ==
  UNION {
    LET d == [SearchMove(SearchExpand(di, t), reached) EXCEPT !.state_duration = dur]
    IN IF d.distance <= reacquire_range
       THEN {Sound(Tracked([d EXCEPT !.state = "detecting", !.state_start = t,
                                     !.state_duration = NoVal,
                                     !.search_pattern = "none",
                                     !.search_waypoints = <<>>]), "combat", gameOver)}
       ELSE IF reached \/ t - d.state_start >= d.state_duration
       THEN {Quiet([d EXCEPT !.state = "patrol", !.state_start = t,
                             !.state_duration = NoVal,
                             !.search_pattern = "none",
                             !.search_waypoints = <<>>], gameOver)}
       ELSE {Quiet(d, gameOver)}
    : dur \in Durations(d0, RandInt(DRONE_SEARCH_TIMEOUT_MIN, DRONE_SEARCH_TIMEOUT_MAX)),
      reached \in BOOLEAN,
      di \in SearchInit(d0, t)}

FsmAttacking(d, t, gameOver) ==
  UNION {
    IF t - r.d.state_start >= DRONE_ATTACK_STATE_DURATION
    THEN {[r EXCEPT !.d = [r.d EXCEPT !.state = "cooldown", !.state_start = t,
                                      !.cooldown_duration = cd,
                                      !.shots_fired = 0, !.last_shot_time = 0]]
            : cd \in RandInt(DRONE_COOLDOWN_MIN, DRONE_COOLDOWN_MAX)}
    ELSE {r}
    : r \in UpdateAttackFiring(d, t, gameOver)}

\* leaving cooldown once cooldown_duration (as read at the top) has elapsed
CooldownExpiry(d, cooldown_duration, lose_track_range, t) ==
  IF t - d.state_start >= cooldown_duration
  THEN IF d.distance <= lose_track_range
       THEN Tracked([d EXCEPT !.state = "engaging", !.state_start = t,
                              !.last_peek_time = NoVal])
       ELSE [d EXCEPT !.state = "searching", !.state_start = t,
                      !.last_peek_time = NoVal]
  ELSE d

FsmCooldown(d, lose_track_range, t, gameOver) ==
  LET cooldown_duration == IF d.cooldown_duration = NoVal THEN 300 ELSE d.cooldown_duration
      last_peek == IF d.last_peek_time = NoVal THEN d.state_start ELSE d.last_peek_time
  IN IF t - last_peek >= COOLDOWN_PEEK_INTERVAL
     THEN LET d1 == [d EXCEPT !.last_peek_time = t]
          IN \* no reassessment this peek
             {Quiet(CooldownExpiry(d1, cooldown_duration, lose_track_range, t), gameOver)}
             \cup
             \* reassessment
             (IF d1.distance < 10
              THEN {Quiet([d1 EXCEPT !.cooldown_duration = Min(cooldown_duration, 200),
                                     !.state = "engaging", !.state_start = t], gameOver)}
              ELSE {Quiet(Tracked([d1 EXCEPT !.state = "engaging", !.state_start = t]),
                          gameOver)}
                   \* player_moved > 10
                   \cup
                   (IF d1.distance > 40
                    THEN {Quiet(CooldownExpiry(
                                  [d1 EXCEPT !.cooldown_duration = cooldown_duration + 500],
                                  cooldown_duration, lose_track_range, t), gameOver)}
                    ELSE {Quiet(CooldownExpiry(d1, cooldown_duration, lose_track_range, t),
                                gameOver)}))
     ELSE {Quiet(CooldownExpiry(d, cooldown_duration, lose_track_range, t), gameOver)}

\* the branch of the state machine for every state but engaging
FsmBranch(d, detect_range, lose_track_range, reacquire_range, t, gameOver) ==
  CASE d.state = "spawning"   -> FsmSpawning(d, t, gameOver)
    [] d.state = "patrol"     -> FsmPatrol(d, detect_range, t, gameOver)
    [] d.state = "detecting"  -> FsmDetecting(d, t, gameOver)
    [] d.state = "winding_up" -> FsmWindingUp(d, t, gameOver)
    [] d.state = "searching"  -> FsmSearching(d, reacquire_range, t, gameOver)
    [] d.state = "attacking"  -> FsmAttacking(d, t, gameOver)
    [] d.state = "cooldown"   -> FsmCooldown(d, lose_track_range, t, gameOver)
    [] OTHER                  -> {Quiet(d, gameOver)}

\* the wounded scaling of a dict, whatever its is_wounded
WoundedScaling(d) ==
  [d EXCEPT !.is_wounded = TRUE,
            !.evasion_skill = (@ * WOUNDED_EVASION_PCT) \div 100,
            !.aggression = (@ * WOUNDED_AGGRESSION_PCT) \div 100]

\* a wounded check that scales at every update under the threshold
WoundedCheckEveryUpdate(d) ==
  IF d.health <= WOUNDED_HEALTH_THRESHOLD THEN WoundedScaling(d) ELSE d

\* the wounded check at the head of _update_drone_state
WoundedCheck(d) ==
  IF d.health <= WOUNDED_HEALTH_THRESHOLD /\ ~d.is_wounded THEN WoundedScaling(d) ELSE d

\* the three ranges chosen at the head of _update_drone_state
DetectRange(camo_effective) ==
  IF camo_effective THEN DRONE_CAMO_DETECT_RANGE ELSE DRONE_DETECT_RANGE

\* a lose-track range that is half the normal one under camouflage
LoseTrackRangeHalved(camo_effective) ==
  IF camo_effective THEN DRONE_LOSE_TRACK_RANGE \div 2 ELSE DRONE_LOSE_TRACK_RANGE

LoseTrackRange(camo_effective) ==
  IF camo_effective THEN DRONE_CAMO_LOSE_TRACK_RANGE ELSE DRONE_LOSE_TRACK_RANGE

ReacquireRange(camo_effective) ==
  IF camo_effective THEN DRONE_CAMO_REACQUIRE_RANGE ELSE DRONE_REACQUIRE_RANGE

\* "if current_time >= drone['suppression_end_time']" for a suppressed drone
SuppressionReleased(d, t) ==
  SUPPRESSION_ENABLED /\ d.is_suppressed /\ t >= d.suppression_end_time

\* a suppression that holds no drone back
PinnedNever(d, t) == FALSE

\* a suppressed drone that only evades: the early return of the update
Pinned(d, t) ==
  /\ SUPPRESSION_ENABLED /\ d.is_suppressed /\ ~SuppressionReleased(d, t)
  /\ d.state \in {"engaging", "winding_up", "attacking"}

\* the results [heap, play, hit, over] of one call for the drone dict r
UpdateDroneState(h, ds, r, camo_effective, t, gameOver) ==
  LET detect_range == DetectRange(camo_effective)
      lose_track_range == LoseTrackRange(camo_effective)
      reacquire_range == ReacquireRange(camo_effective)
      d0 == h[r]
      d1 == WoundedCheck(d0)
      released == SuppressionReleased(d1, t)
      pinned == Pinned(d1, t)
      d2 == IF released
            THEN [d1 EXCEPT !.is_suppressed = FALSE,
                            !.suppression_cooldown_end = t + SUPPRESSION_COOLDOWN]
            ELSE d1
      d == IF d2.distress_active
              /\ t - d2.distress_start_time >= DISTRESS_BEACON_DURATION
           THEN [d2 EXCEPT !.distress_active = FALSE] ELSE d2
  IN IF pinned
     THEN {[heap |-> [h EXCEPT ![r] = d1], play |-> {}, hit |-> FALSE, over |-> gameOver]}
     ELSE IF d.state = "engaging"
     THEN UNION {
            {[heap |-> [c.heap EXCEPT ![r] = res.d], play |-> c.play \cup res.play,
              hit |-> res.hit, over |-> res.over]
               : res \in FsmEngaging(c.heap[r], lose_track_range, t, gameOver)}
            : c \in CoordinateTactics([h EXCEPT ![r] = d], ds, r, t)}
     ELSE {[heap |-> [h EXCEPT ![r] = res.d], play |-> res.play,
            hit |-> res.hit, over |-> res.over]
             : res \in FsmBranch(d, detect_range, lose_track_range, reacquire_range,
                                  t, gameOver)}

\* DroneManager._update_ambient_audio: the channels it starts
UpdateAmbientAudio(d, playing) ==
  IF d.state \notin {"patrol", "detecting", "engaging", "attacking", "cooldown"}
  THEN {}
  ELSE IF d.state \in {"engaging", "attacking"}
       THEN (IF "supersonic" \notin playing THEN {"supersonic"} ELSE {})
       ELSE (IF "passby" \notin playing THEN {"passby"} ELSE {})

----------------------------------------------------------------------------
(* DroneManager.update *)

\* [d for d in self.drones if d['state'] != 'destroyed']
ActiveDrones(h, ds) == SelectSeq(ds, LAMBDA r : h[r].state # "destroyed")

\* a pool that never waits for the sounds of a wreck
IsDroneSilentAlways(b, id) == TRUE

\* DroneAudioPool.is_drone_silent
IsDroneSilent(b, id) == IF id \in DOMAIN b THEN b[id] = {} ELSE TRUE

\* channel.play on the channels of one drone id (get_channels is None for an
\* id outside the pool)
Play(b, id, chans) == IF id \in DOMAIN b THEN [b EXCEPT ![id] = @ \cup chans] ELSE b

\* DroneAudioPool.deactivate_drone
DeactivateDrone(p, id) ==
  IF id \in p.active
  THEN [active |-> p.active \ {id},
        busy |-> IF id \in DOMAIN p.busy THEN [p.busy EXCEPT ![id] = {}] ELSE p.busy]
  ELSE p

\* the body of "for drone in self.drones" for one drone: the worlds it can
\* leave behind (w.remove is drones_to_remove)
UpdateOne(w, ds, r, camo_effective, t, fresh) ==
  LET d0 == w.heap[r]
  IN IF d0.state = "destroyed"
     THEN {IF IsDroneSilent(w.busy, d0.id)
           THEN [w EXCEPT !.remove = Append(@, r)] ELSE w}
     ELSE UNION {
            {LET b1 == Play(w.busy, d0.id, res.play)
                 playing == IF d0.id \in DOMAIN b1 THEN b1[d0.id] ELSE {}
             IN [heap |-> res.heap,
                 busy |-> Play(b1, d0.id, UpdateAmbientAudio(res.heap[r], playing)),
                 over |-> res.over,
                 remove |-> w.remove]
             : res \in UpdateDroneState([w.heap EXCEPT ![r].distance = dist], ds, r,
                                        camo_effective, t, w.over)}
            : dist \in IF r = fresh THEN {d0.distance} ELSE scenario.distances}

RECURSIVE UpdateLoop(_, _, _, _, _, _)
UpdateLoop(ws, ds, i, camo_effective, t, fresh) ==
  IF i > Len(ds) THEN ws
  ELSE UpdateLoop(UNION {UpdateOne(w, ds, ds[i], camo_effective, t, fresh) : w \in ws},
                  ds, i + 1, camo_effective, t, fresh)

RECURSIVE RemoveAll(_, _, _, _)
\* "for drone in drones_to_remove": deactivate in the pool, self.drones.remove
RemoveAll(ds, p, h, rem) ==
  IF rem = <<>> THEN [drones |-> ds, pool |-> p]
  ELSE RemoveAll(RemoveFirst(ds, Head(rem)), DeactivateDrone(p, h[Head(rem)].id),
                 h, Tail(rem))

\* spawn_distance = random.uniform(DRONE_SPAWN_DISTANCE_MIN, ..._MAX)
SpawnDistances ==
  {x \in scenario.distances :
     DRONE_SPAWN_DISTANCE_MIN <= x /\ x <= DRONE_SPAWN_DISTANCE_MAX}

\* a _spawn_drone without its guard on the length of the list
PoolNeverFull(n, cap) == FALSE

\* "if len(self.drones) >= self.max_drones: return None" in _spawn_drone
PoolFull(n, cap) == n >= cap

\* CamouflageSystem.update: the reveal timer
CamoUpdate(revealed, revealed_end, t) == revealed /\ ~(t >= revealed_end)

\* one frame of MechSimulator.run at current_time = now + dt: camo.update,
\* then DroneManager.update
Update(dt) ==
  /\ ~game_over
  /\ now + dt <= StartTime + Horizon
  /\ IF ~scenario.has_drone_sounds
     \* "if not self.sounds.has_drone_sounds: return []"
     THEN /\ now' = now + dt
          /\ camo_revealed' = CamoUpdate(camo_revealed, camo_revealed_end, now + dt)
          /\ events' = <<>>
          /\ UNCHANGED <<max_drones, drones, heap, spawn_timer, cached, dirty, busy,
                         pool_active, game_over, camo_active, camo_revealed_end,
                         drones_to_remove, calls, player_x, scenario>>
     ELSE
          /\ player_x' \in scenario.positions
          /\ LET t == now + dt
                 revealed1 == CamoUpdate(camo_revealed, camo_revealed_end, t)
                 camo_effective == camo_active /\ ~revealed1
                 spawnCheck == t - spawn_timer >= DRONE_SPAWN_INTERVAL
                 cache1 == IF spawnCheck THEN ActiveDrones(heap, drones) ELSE cached
                 doSpawn == spawnCheck /\ Len(cache1) < max_drones
                            /\ ~PoolFull(Len(drones), max_drones)
                 ref == NewRef(heap)
                 id == Len(drones)
             IN \E dist \in IF doSpawn THEN SpawnDistances ELSE {0},
                   pers \in IF doSpawn THEN scenario.personalities ELSE {"none"} :
                  LET heap1 == IF doSpawn
                               THEN [r \in DOMAIN heap \cup {ref} |->
                                       IF r = ref THEN NewDrone(id, t, dist, pers) ELSE heap[r]]
                               ELSE heap
                      drones1 == IF doSpawn THEN Append(drones, ref) ELSE drones
                      active1 == IF doSpawn /\ id \in DOMAIN busy THEN pool_active \cup {id}
                                 ELSE pool_active
                      busy1 == IF doSpawn THEN Play(busy, id, {"takeoff"}) ELSE busy
                      w0 == [heap |-> heap1, busy |-> busy1, over |-> game_over, remove |-> <<>>]
                  IN \E w \in UpdateLoop({w0}, drones1, 1, camo_effective, t,
                                         IF doSpawn THEN ref ELSE 0) :
                       LET rm == RemoveAll(drones1, [active |-> active1, busy |-> w.busy],
                                           w.heap, w.remove)
                           cache2 == IF spawnCheck THEN cache1 ELSE ActiveDrones(w.heap, rm.drones)
                       IN /\ now' = t
                          /\ spawn_timer' = IF spawnCheck THEN t ELSE spawn_timer
                          /\ drones' = rm.drones
                          /\ cached' = cache2
                          /\ dirty' = FALSE
                          /\ heap' = Collect(w.heap, rm.drones, cache2)
                          /\ busy' = rm.pool.busy
                          /\ pool_active' = rm.pool.active
                          /\ game_over' = w.over
                          /\ camo_revealed' = revealed1
                          /\ drones_to_remove' = [i \in 1..Len(w.remove) |-> w.heap[w.remove[i]].id]
                          /\ events' = IF doSpawn THEN <<id>> ELSE <<>>
                          /\ UNCHANGED <<calls, scenario>>
                          /\ UNCHANGED <<max_drones, camo_active, camo_revealed_end>>

\* a slow frame
Frame == Update(CoarseFrame - (now % CoarseFrame))

\* a short frame, followed while some drone winds up or fires
ShortFrame ==
  /\ \E i \in 1..Len(drones) : heap[drones[i]].state \in {"winding_up", "attacking"}
  /\ Update(FineFrame)

----------------------------------------------------------------------------
(* The queries of DroneManager *)

\* DroneManager._get_active_drones_cached: the list it returns
GetActiveDrones == IF dirty THEN ActiveDrones(heap, drones) ELSE cached

\* DroneManager.get_drones_in_range(range_m)
GetDronesInRange(range_m) ==
  SelectSeq(GetActiveDrones, LAMBDA r : heap[r].distance <= range_m)

RECURSIVE MinDistance(_)
\* min(d['distance'] for d in active)
MinDistance(s) ==
  IF Len(s) = 1 THEN heap[s[1]].distance
  ELSE Min(heap[s[1]].distance, MinDistance(Tail(s)))

\* DroneManager.get_closest_drone_distance
GetClosestDroneDistance ==
  IF GetActiveDrones = <<>> THEN NO_DRONE_DISTANCE ELSE MinDistance(GetActiveDrones)

\* a call of get_active_drones / get_drones_in_range / get_closest_drone_distance
\* before the first frame: the cache is built and the flag cleared
Query ==
  /\ dirty
  /\ UNCHANGED <<drones_to_remove, events, calls, player_x, scenario>>
  /\ cached' = ActiveDrones(heap, drones)
  /\ dirty' = FALSE
  /\ UNCHANGED <<now, max_drones, drones, heap, spawn_timer, busy, pool_active,
                 game_over, camo_active, camo_revealed, camo_revealed_end>>

----------------------------------------------------------------------------
(* DroneManager.damage_drone *)

\* a kill test that misses a drone at exactly 0 health
IsKillBelowZero(health) == health < 0

\* is_kill = drone['health'] <= 0
IsKill(health) == health <= 0

\* DroneManager._destroy_drone: the dict
DestroyDrone(d) == [d EXCEPT !.state = "destroyed"]

\* DroneManager._destroy_drone: ambient stopped, explosion on 'debris', debris
\* on 'weapon'
DestroySounds(b, id) ==
  IF id \in DOMAIN b
  THEN [b EXCEPT ![id] = (@ \ {"ambient"}) \cup {"debris", "weapon"}]
  ELSE b

\* a distress call that every drone in range answers
RespondsInAnyState(other) == other.distance <= DISTRESS_ALERT_RANGE

\* "if other['state'] not in ('patrol', 'searching'): continue" and the range
\* check of _activate_distress_beacon
RespondsToDistress(other) ==
  other.state \in {"patrol", "searching"} /\ other.distance <= DISTRESS_ALERT_RANGE

\* DroneManager._activate_distress_beacon: the other drones of self.drones
\* answer the call
ActivateDistressBeacon(h, ds, r, t) ==
  [x \in DOMAIN h |->
     IF x \in SeqToSet(ds) /\ h[x].id # h[r].id /\ RespondsToDistress(h[x])
     THEN [h[x] EXCEPT !.state = "detecting", !.state_start = t,
                       \* the place of the drone in distress
                       !.last_known = [of |-> "drone", x |-> h[r].distance],
                       \* other['speed'] *= DISTRESS_RESPONSE_SPEED_MULT
                       !.speed = (@ * DISTRESS_RESPONSE_SPEED_MULT_PCT) \div 100]
     ELSE h[x]]

\* a suppression trigger that does not look at the cooldown
SuppressionTriggerNoCooldown(d, damage, t) ==
  LET d1 == IF t - d.damage_window_start > SUPPRESSION_TIME_WINDOW
            THEN [d EXCEPT !.damage_window_start = t, !.recent_damage = 0] ELSE d
      d2 == [d1 EXCEPT !.recent_damage = @ + damage]
  IN IF d2.recent_damage >= SUPPRESSION_DAMAGE_THRESHOLD /\ ~d2.is_suppressed
     THEN {[d2 EXCEPT !.is_suppressed = TRUE, !.suppression_end_time = t + dur]
             : dur \in RandInt(SUPPRESSION_DURATION_MIN, SUPPRESSION_DURATION_MAX)}
     ELSE {d2}

\* the suppression trigger of damage_drone: the dicts it can leave
SuppressionTrigger(d, damage, t) ==
  LET d1 == IF t - d.damage_window_start > SUPPRESSION_TIME_WINDOW
            THEN [d EXCEPT !.damage_window_start = t, !.recent_damage = 0] ELSE d
      d2 == [d1 EXCEPT !.recent_damage = @ + damage]
  IN IF d2.recent_damage >= SUPPRESSION_DAMAGE_THRESHOLD /\ ~d2.is_suppressed
        /\ t >= d2.suppression_cooldown_end
     THEN {[d2 EXCEPT !.is_suppressed = TRUE, !.suppression_end_time = t + dur]
             : dur \in RandInt(SUPPRESSION_DURATION_MIN, SUPPRESSION_DURATION_MAX)}
     ELSE {d2}

\* DroneManager.damage_drone(drone, damage) on the dict r: the results
\* [heap, busy]
DamageDrone(h, b, ds, r, damage, t) ==
  LET d1 == [h[r] EXCEPT !.health = @ - damage]
  IN IF IsKill(d1.health) /\ HIT_CONFIRM_KILL_SOUND
     THEN {[heap |-> [h EXCEPT ![r] = DestroyDrone(d1)],
            busy |-> DestroySounds(b, d1.id)]}
     ELSE IF d1.health > 0
     THEN LET beacon == DISTRESS_BEACON_ENABLED
                        /\ (damage >= DISTRESS_DAMAGE_THRESHOLD
                            \/ d1.health <= DISTRESS_HEALTH_THRESHOLD)
                        /\ ~d1.distress_active
              d2 == IF beacon
                    THEN [d1 EXCEPT !.distress_active = TRUE, !.distress_start_time = t]
                    ELSE d1
              h2 == IF beacon
                    THEN ActivateDistressBeacon([h EXCEPT ![r] = d2], ds, r, t)
                    ELSE [h EXCEPT ![r] = d2]
              b2 == IF beacon THEN Play(b, d2.id, {"combat"}) ELSE b
          IN {[heap |-> [h2 EXCEPT ![r] = d3], busy |-> b2]
                : d3 \in IF SUPPRESSION_ENABLED THEN SuppressionTrigger(h2[r], damage, t)
                         ELSE {h2[r]}}
     ELSE {[heap |-> [h EXCEPT ![r] = d1], busy |-> b]}

\* the player hits one of the drones that get_drones_in_range returned
PlayerHit ==
  /\ calls < CallBudget
  /\ calls' = calls + 1
  /\ UNCHANGED <<drones_to_remove, events, player_x, scenario>>
  /\ ~game_over
  /\ \E wpn \in PlayerWeapons :
       LET targets == GetDronesInRange(wpn.range)
       IN \E i \in 1..Len(targets) :
            /\ heap[targets[i]].health - wpn.damage >= -MaxOverkill
            /\ \E res \in DamageDrone(heap, busy, drones, targets[i], wpn.damage, now) :
                 /\ heap' = res.heap
                 /\ busy' = res.busy
  /\ cached' = GetActiveDrones
  /\ dirty' = FALSE
  /\ UNCHANGED <<now, max_drones, drones, spawn_timer, pool_active, game_over,
                 camo_active, camo_revealed, camo_revealed_end>>

----------------------------------------------------------------------------
(* DroneManager.react_to_player_fire *)

\* the sound-based detection of one drone: the dicts it can leave
HearsPlayer(d, camo_effective, t) ==
  LET sound_range == IF camo_effective
                     THEN (SOUND_DETECTION_RANGE * CAMO_SOUND_DETECTION_RANGE_PCT) \div 100
                     ELSE SOUND_DETECTION_RANGE
  IN IF d.state \in {"spawning", "destroyed"} THEN {d}
     ELSE IF SOUND_DETECTION_ENABLED /\ d.state \in {"patrol", "searching"}
             /\ d.distance <= sound_range
     THEN {d, [d EXCEPT !.state = "detecting", !.state_start = t,
                        !.last_known = [of |-> "player", x |-> player_x]]}
     ELSE {d}

RECURSIVE ReactLoop(_, _, _, _, _)
\* "for drone in self.drones" of react_to_player_fire over the worlds [heap, busy]
ReactLoop(ws, ds, i, camo_effective, t) ==
  IF i > Len(ds) THEN ws
  ELSE ReactLoop(
         UNION {{[heap |-> [w.heap EXCEPT ![ds[i]] = d2],
                  busy |-> IF d2.state # w.heap[ds[i]].state
                           THEN Play(w.busy, d2.id, {"combat"}) ELSE w.busy]
                   : d2 \in HearsPlayer(w.heap[ds[i]], camo_effective, t)}
                : w \in ws},
         ds, i + 1, camo_effective, t)

ReactToPlayerFire ==
  /\ calls < CallBudget
  /\ calls' = calls + 1
  /\ UNCHANGED <<drones_to_remove, events, player_x, scenario>>
  /\ ~game_over
  /\ \E w \in ReactLoop({[heap |-> heap, busy |-> busy]}, drones, 1,
                        camo_active /\ ~camo_revealed, now) :
       /\ heap' = w.heap
       /\ busy' = w.busy
  /\ UNCHANGED <<now, max_drones, drones, spawn_timer, cached, dirty, pool_active,
                 game_over, camo_active, camo_revealed, camo_revealed_end>>

----------------------------------------------------------------------------
(* CamouflageSystem *)

\* a confusion that invents a state of its own
ConfuseDroneIntoConfused(d, t) ==
  IF d.state \in {"detecting", "engaging", "winding_up"}
     /\ d.distance > CAMO_CONFUSION_LOSE_LOCK_RANGE
  THEN [d EXCEPT !.state = "confused", !.state_start = t]
  ELSE d

\* a confusion that also takes searching drones and extends their confusion
ConfuseDroneLonger(d, t) ==
  IF d.state \in {"detecting", "engaging", "winding_up", "searching"}
     /\ d.distance > CAMO_CONFUSION_LOSE_LOCK_RANGE
  THEN [d EXCEPT !.confused_until =
                    (IF @ > t THEN @ ELSE t) + CAMO_CONFUSION_DURATION,
                 !.state = "searching", !.state_start = t]
  ELSE d

\* CamouflageSystem._confuse_drones: one drone
ConfuseDrone(d, t) ==
  IF d.state \in {"detecting", "engaging", "winding_up"}
     /\ d.distance > CAMO_CONFUSION_LOSE_LOCK_RANGE
  THEN [d EXCEPT !.confused_until = t + CAMO_CONFUSION_DURATION,
                 !.state = "searching", !.state_start = t]
  ELSE d

\* a forced loss of track without the test of the drone's state
LoseTrackInAnyState(d, t) ==
  IF d.distance > FORCE_LOSE_RANGE
  THEN [d EXCEPT !.state = "searching", !.state_start = t]
  ELSE d

\* CamouflageSystem.force_drones_to_lose_track: one drone
LoseTrack(d, t) ==
  IF d.state \in {"detecting", "engaging"} /\ d.distance > FORCE_LOSE_RANGE
  THEN [d EXCEPT !.state = "searching", !.state_start = t]
  ELSE d

\* CamouflageSystem.toggle (shield down, energy left)
ToggleCamo ==
  /\ calls < CallBudget
  /\ calls' = calls + 1
  /\ UNCHANGED <<drones_to_remove, events, player_x, scenario>>
  /\ ~game_over
  /\ camo_active' = ~camo_active
  /\ camo_revealed' = FALSE
  /\ UNCHANGED <<now, max_drones, drones, heap, spawn_timer, cached, dirty, busy,
                 pool_active, game_over, camo_revealed_end>>

\* CamouflageSystem.reveal(current_time, None, drone_manager)
Reveal ==
  /\ calls < CallBudget
  /\ calls' = calls + 1
  /\ UNCHANGED <<drones_to_remove, events, player_x, scenario>>
  /\ ~game_over
  /\ camo_active
  /\ IF ~camo_revealed
     THEN /\ camo_revealed' = TRUE
          /\ camo_revealed_end' = now + CAMO_REVEAL_DURATION
          /\ heap' = [r \in DOMAIN heap |->
                        IF CAMO_CONFUSION_ENABLED /\ r \in SeqToSet(drones)
                        THEN ConfuseDrone(heap[r], now) ELSE heap[r]]
     ELSE /\ camo_revealed_end' = Min(camo_revealed_end + CAMO_REVEAL_EXTEND_MS,
                                      now + CAMO_REVEAL_DURATION)
          /\ UNCHANGED <<camo_revealed, heap>>
  /\ UNCHANGED <<now, max_drones, drones, spawn_timer, cached, dirty, busy,
                 pool_active, game_over, camo_active>>

\* CamouflageSystem.force_drones_to_lose_track(drone_manager, current_time)
ForceDronesToLoseTrack ==
  /\ calls < CallBudget
  /\ calls' = calls + 1
  /\ UNCHANGED <<drones_to_remove, events, player_x, scenario>>
  /\ ~game_over
  /\ heap' = [r \in DOMAIN heap |->
                IF r \in SeqToSet(drones) THEN LoseTrack(heap[r], now) ELSE heap[r]]
  /\ UNCHANGED <<now, max_drones, drones, spawn_timer, cached, dirty, busy,
                 pool_active, game_over, camo_active, camo_revealed, camo_revealed_end>>

----------------------------------------------------------------------------
(* DroneManager.clear_all, called by MechSimulator._restart_game *)

RECURSIVE DeactivateAll(_, _, _, _)
\* "for drone in self.drones: self._drone_pool.deactivate_drone(drone['id'])"
DeactivateAll(p, h, ds, i) ==
  IF i > Len(ds) THEN p
  ELSE DeactivateAll(DeactivateDrone(p, h[ds[i]].id), h, ds, i + 1)

\* DroneManager.clear_all: the drone list it leaves
ClearAll(ds) == <<>>

\* MechSimulator._restart_game: state.reset(), clear_all(), spawn_timer
RestartGame ==
  /\ calls < CallBudget
  /\ calls' = calls + 1
  /\ UNCHANGED <<drones_to_remove, events, player_x, scenario>>
  /\ game_over
  /\ LET p == DeactivateAll([active |-> pool_active, busy |-> busy], heap, drones, 1)
     IN /\ busy' = p.busy
        /\ pool_active' = p.active
  /\ drones' = ClearAll(drones)
  /\ heap' = Collect(heap, drones', cached)
  /\ spawn_timer' = now
  /\ game_over' = FALSE
  /\ camo_active' = FALSE
  /\ camo_revealed' = FALSE
  /\ camo_revealed_end' = 0
  /\ UNCHANGED <<now, max_drones, cached, dirty>>

----------------------------------------------------------------------------
(* The sound engine *)

\* the sounds playing for a wreck's id run out
SoundsFinished ==
  \E i \in 1..Len(drones) :
    LET id == heap[drones[i]].id
    IN /\ heap[drones[i]].state = "destroyed"
       /\ id \in DOMAIN busy
       /\ busy[id] # {}
       /\ busy' = [busy EXCEPT ![id] = {}]
       /\ UNCHANGED <<now, max_drones, drones, heap, spawn_timer, cached, dirty,
                      pool_active, game_over, camo_active, camo_revealed,
                      camo_revealed_end, drones_to_remove, events, calls, player_x,
                      scenario>>

----------------------------------------------------------------------------
(* The game: slow frames, every operation of the player *)

\* DroneManager.__init__ with the pool of max_drones ids, the game just started
NewManager ==
  /\ now = StartTime
  /\ drones = <<>>
  /\ heap = [r \in {} |-> 0]
  /\ spawn_timer = 0
  /\ cached = <<>>
  /\ dirty = TRUE
  /\ busy = [i \in 0..(max_drones - 1) |-> {}]
  /\ pool_active = {}
  /\ game_over = FALSE
  /\ camo_active = FALSE
  /\ camo_revealed = FALSE
  /\ camo_revealed_end = 0
  /\ drones_to_remove = <<>>
  /\ events = <<>>
  /\ calls = 0
  /\ player_x = 0

Init ==
  /\ max_drones \in {MIN_DRONES, DEFAULT_DRONE_COUNT}
  /\ scenario = [distances |-> Distances, altitudes |-> Altitudes,
                 personalities |-> SpawnPersonalities, positions |-> Positions,
                 patterns |-> Patterns,
                 has_drone_sounds |-> TRUE]
  /\ NewManager

Next ==
  \/ Frame
  \/ Query
  \/ PlayerHit
  \/ ReactToPlayerFire
  \/ ToggleCamo
  \/ Reveal
  \/ ForceDronesToLoseTrack
  \/ RestartGame
  \/ SoundsFinished

Spec == Init /\ [][Next]_vars

----------------------------------------------------------------------------
(* One drone followed through its bursts in short frames *)

InitBurst ==
  /\ max_drones = MIN_DRONES
  /\ scenario = [distances |-> BurstDistances, altitudes |-> BurstAltitudes,
                 personalities |-> BurstPersonalities, positions |-> Positions,
                 patterns |-> Patterns,
                 has_drone_sounds |-> TRUE]
  /\ NewManager

NextBurst ==
  \/ Frame
  \/ ShortFrame

SpecBurst == InitBurst /\ [][NextBurst]_vars

-----------------------------------------------------------------------------
(* One veteran followed through its cooldowns in frames of half a second *)

\* a frame between the short and the slow one, longer than the peek interval
PeekFrame == 500
\* within the attack range, or between the attack and the lose-track range
CooldownDistances == {5, 42}

\* a frame of half a second, followed while some drone cools down
MediumFrame ==
  /\ \E i \in 1..Len(drones) : heap[drones[i]].state = "cooldown"
  /\ Update(PeekFrame)

InitCooldown ==
  /\ max_drones = MIN_DRONES
  /\ scenario = [distances |-> CooldownDistances, altitudes |-> Altitudes,
                 personalities |-> SpawnPersonalities, positions |-> Positions,
                 patterns |-> Patterns,
                 has_drone_sounds |-> TRUE]
  /\ NewManager

NextCooldown ==
  \/ Frame
  \/ ShortFrame
  \/ MediumFrame

SpecCooldown == InitCooldown /\ [][NextCooldown]_vars

-----------------------------------------------------------------------------
(* A drone on patrol followed through its bursts, near the player or out of
   the range of every weapon *)

\* next to the player or beyond the 45 m of the last weapon
SecondBurstDistances == {5, 70}

InitSecondBurst ==
  /\ max_drones = MIN_DRONES
  /\ scenario = [distances |-> SecondBurstDistances, altitudes |-> Altitudes,
                 personalities |-> SpawnPersonalities, positions |-> Positions,
                 patterns |-> Patterns,
                 has_drone_sounds |-> TRUE]
  /\ now = StartTime
  /\ drones = <<1>>
  /\ \E x1 \in SecondBurstDistances :
        heap = [r \in {1} |->
                  [NewDrone(0, StartTime, x1, "veteran") EXCEPT !.state = "patrol"]]
  /\ spawn_timer = StartTime
  /\ cached = <<1>>
  /\ dirty = FALSE
  /\ busy = [i \in 0..(max_drones - 1) |-> {}]
  /\ pool_active = {0}
  /\ game_over = FALSE
  /\ camo_active = FALSE
  /\ camo_revealed = FALSE
  /\ camo_revealed_end = 0
  /\ drones_to_remove = <<>>
  /\ events = <<>>
  /\ calls = 0
  /\ player_x = 0

SpecSecondBurst == InitSecondBurst /\ [][NextBurst]_vars

-----------------------------------------------------------------------------
(* The same frames with or without the drone sounds on disk *)

InitMute ==
  /\ max_drones = MIN_DRONES
  /\ \E found \in BOOLEAN :
        scenario = [distances |-> CooldownDistances, altitudes |-> Altitudes,
                    personalities |-> SpawnPersonalities, positions |-> Positions,
                    patterns |-> Patterns, has_drone_sounds |-> found]
  /\ NewManager

SpecMute == InitMute /\ [][NextCooldown]_vars

-----------------------------------------------------------------------------
(* One veteran on patrol and a player who moves, fires and hides *)

\* next to the player or beyond the lose-track range
SearchDistances == {5, 60}
\* the player moves between two places
SearchPositions == {0, 1}

\* the drone of the pool has spawned and has gone from spawning to patrol
InitSearch ==
  /\ max_drones = MIN_DRONES
  /\ scenario = [distances |-> SearchDistances, altitudes |-> Altitudes,
                 personalities |-> SpawnPersonalities, positions |-> SearchPositions,
                 patterns |-> SEARCH_PATTERN_TYPES,
                 has_drone_sounds |-> TRUE]
  /\ now = StartTime
  /\ drones = <<1>>
  /\ \E x1 \in SearchDistances :
        heap = [r \in {1} |-> [NewDrone(0, StartTime, x1, "veteran")
                                 EXCEPT !.state = "patrol"]]
  /\ spawn_timer = StartTime
  /\ cached = <<1>>
  /\ dirty = FALSE
  /\ busy = [i \in 0..(max_drones - 1) |-> {}]
  /\ pool_active = {0}
  /\ game_over = FALSE
  /\ camo_active = FALSE
  /\ camo_revealed = FALSE
  /\ camo_revealed_end = 0
  /\ drones_to_remove = <<>>
  /\ events = <<>>
  /\ calls = 0
  /\ player_x = 0

NextSearch ==
  \/ Frame
  \/ ReactToPlayerFire
  \/ ToggleCamo
  \/ Reveal

SpecSearch == InitSearch /\ [][NextSearch]_vars

-----------------------------------------------------------------------------
(* One veteran on patrol around a player who switches the camouflage *)

\* distances on both sides of the camouflage ranges and of half the normal ones
CamoDistances == {5, 12, 20}

InitCamo ==
  /\ max_drones = MIN_DRONES
  /\ scenario = [distances |-> CamoDistances, altitudes |-> Altitudes,
                 personalities |-> SpawnPersonalities, positions |-> Positions,
                 patterns |-> Patterns,
                 has_drone_sounds |-> TRUE]
  /\ now = StartTime
  /\ drones = <<1>>
  /\ \E x1 \in CamoDistances :
        heap = [r \in {1} |-> [NewDrone(0, StartTime, x1, "veteran")
                                 EXCEPT !.state = "patrol"]]
  /\ spawn_timer = StartTime
  /\ cached = <<1>>
  /\ dirty = FALSE
  /\ busy = [i \in 0..(max_drones - 1) |-> {}]
  /\ pool_active = {0}
  /\ game_over = FALSE
  /\ camo_active = FALSE
  /\ camo_revealed = FALSE
  /\ camo_revealed_end = 0
  /\ drones_to_remove = <<>>
  /\ events = <<>>
  /\ calls = 0
  /\ player_x = 0

NextCamo ==
  \/ Frame
  \/ ToggleCamo

SpecCamo == InitCamo /\ [][NextCamo]_vars

-----------------------------------------------------------------------------
(* One veteran on patrol under the fire of the player *)

\* within the range of both weapons of the player
SuppressDistances == {5}

InitSuppress ==
  /\ max_drones = MIN_DRONES
  /\ scenario = [distances |-> SuppressDistances, altitudes |-> Altitudes,
                 personalities |-> SpawnPersonalities, positions |-> Positions,
                 patterns |-> Patterns,
                 has_drone_sounds |-> TRUE]
  /\ now = StartTime
  /\ drones = <<1>>
  /\ \E x1 \in SuppressDistances :
        heap = [r \in {1} |-> [NewDrone(0, StartTime, x1, "veteran")
                                 EXCEPT !.state = "patrol"]]
  /\ spawn_timer = StartTime
  /\ cached = <<1>>
  /\ dirty = FALSE
  /\ busy = [i \in 0..(max_drones - 1) |-> {}]
  /\ pool_active = {0}
  /\ game_over = FALSE
  /\ camo_active = FALSE
  /\ camo_revealed = FALSE
  /\ camo_revealed_end = 0
  /\ drones_to_remove = <<>>
  /\ events = <<>>
  /\ calls = 0
  /\ player_x = 0

\* a frame of medium length, followed while some drone is suppressed
SuppressedFrame ==
  /\ \E i \in 1..Len(drones) : heap[drones[i]].is_suppressed
  /\ Update(PeekFrame)

NextSuppress ==
  \/ Frame
  \/ SuppressedFrame
  \/ PlayerHit

SpecSuppress == InitSuppress /\ [][NextSuppress]_vars

-----------------------------------------------------------------------------
(* A wreck that still sounds, a drone on patrol, the next spawn, and the fire
   of the player, with update() called again and again *)

\* where drones spawn: out of sight, beyond the attack range, within the
\* range of the missiles
RespawnDistances == {42}

\* the game has run for a while: the drone 0 has just been shot down and its
\* explosion and debris still play, the drone 1 patrols, and the last spawn
\* check ran two slow frames ago
InitRespawn ==
  /\ max_drones = DEFAULT_DRONE_COUNT
  /\ scenario = [distances |-> RespawnDistances, altitudes |-> Altitudes,
                 personalities |-> SpawnPersonalities, positions |-> Positions,
                 patterns |-> Patterns,
                 has_drone_sounds |-> TRUE]
  /\ now = StartTime
  /\ drones = <<1, 2>>
  /\ \E x1 \in RespawnDistances, x2 \in RespawnDistances :
        heap = [r \in {1, 2} |->
                  IF r = 1
                  THEN [NewDrone(0, StartTime, x1, "veteran")
                          EXCEPT !.state = "destroyed", !.health = 0]
                  ELSE [NewDrone(1, StartTime, x2, "veteran")
                          EXCEPT !.state = "patrol"]]
  /\ spawn_timer = StartTime - 2 * CoarseFrame
  /\ cached = <<2>>
  /\ dirty = FALSE
  /\ busy = [i \in 0..(max_drones - 1) |-> IF i = 0 THEN {"debris", "weapon"} ELSE {}]
  /\ pool_active = {0, 1}
  /\ game_over = FALSE
  /\ camo_active = FALSE
  /\ camo_revealed = FALSE
  /\ camo_revealed_end = 0
  /\ drones_to_remove = <<>>
  /\ events = <<>>
  /\ calls = 0
  /\ player_x = 0

\* a frame that starts within the same millisecond as the one before
Tick == Update(0)

NextWreck ==
  \/ Frame
  \/ Tick
  \/ SoundsFinished
  \/ PlayerHit

\* update() keeps being called and every sound that plays for a wreck ends
SpecWreck ==
  InitRespawn /\ [][NextWreck]_vars /\ WF_vars(Tick) /\ WF_vars(SoundsFinished)

-----------------------------------------------------------------------------
(* Two drones on patrol near each other and the fire of the player *)

\* beyond DRONE_DETECT_RANGE, within EMP_RANGE and DISTRESS_ALERT_RANGE
DistressDistances == {30}

InitDistress ==
  /\ max_drones = DEFAULT_DRONE_COUNT
  /\ scenario = [distances |-> DistressDistances, altitudes |-> Altitudes,
                 personalities |-> SpawnPersonalities, positions |-> Positions,
                 patterns |-> Patterns,
                 has_drone_sounds |-> TRUE]
  /\ now = StartTime
  /\ drones = <<1, 2>>
  /\ \E x1 \in DistressDistances, x2 \in DistressDistances :
        heap = [r \in {1, 2} |->
                  IF r = 1
                  THEN [NewDrone(0, StartTime, x1, "veteran") EXCEPT !.state = "patrol"]
                  ELSE [NewDrone(1, StartTime, x2, "veteran") EXCEPT !.state = "patrol"]]
  /\ spawn_timer = StartTime
  /\ cached = <<1, 2>>
  /\ dirty = FALSE
  /\ busy = [i \in 0..(max_drones - 1) |-> {}]
  /\ pool_active = {0, 1}
  /\ game_over = FALSE
  /\ camo_active = FALSE
  /\ camo_revealed = FALSE
  /\ camo_revealed_end = 0
  /\ drones_to_remove = <<>>
  /\ events = <<>>
  /\ calls = 0
  /\ player_x = 0

NextDistress == Frame \/ PlayerHit

SpecDistress == InitDistress /\ [][NextDistress]_vars

-----------------------------------------------------------------------------
(* Three drones on patrol that find the player one after the other *)

\* a pool of three drones, chosen in the menu
TrioDroneCount == 3

\* the third drone of the pool has left spawning
TrioStart == StartTime + 3 * CoarseFrame

InitTrio ==
  /\ max_drones = TrioDroneCount
  /\ scenario = [distances |-> SearchDistances, altitudes |-> Altitudes,
                 personalities |-> SpawnPersonalities, positions |-> Positions,
                 patterns |-> Patterns,
                 has_drone_sounds |-> TRUE]
  /\ now = TrioStart
  /\ drones = <<1, 2, 3>>
  /\ \E x1 \in SearchDistances, x2 \in SearchDistances, x3 \in SearchDistances :
        heap = [r \in {1, 2, 3} |->
                  [NewDrone(r - 1, TrioStart, IF r = 1 THEN x1 ELSE IF r = 2 THEN x2 ELSE x3,
                            "veteran")
                     EXCEPT !.state = "patrol"]]
  /\ spawn_timer = TrioStart
  /\ cached = <<1, 2, 3>>
  /\ dirty = FALSE
  /\ busy = [i \in 0..(max_drones - 1) |-> {}]
  /\ pool_active = {0, 1, 2}
  /\ game_over = FALSE
  /\ camo_active = FALSE
  /\ camo_revealed = FALSE
  /\ camo_revealed_end = 0
  /\ drones_to_remove = <<>>
  /\ events = <<>>
  /\ calls = 0
  /\ player_x = 0

NextTrio == Frame

SpecTrio == InitTrio /\ [][NextTrio]_vars

-----------------------------------------------------------------------------
(* Two drones of different temper on patrol, followed through slow frames *)

SquadPersonalities == {"veteran", "berserker"}
\* next to the player or beyond the lose-track range
SquadDistances == {5, 60}
\* the player moves between two places
SquadPositions == {0, 1}

\* both drones of the pool have spawned and have gone from spawning to patrol
InitSquad ==
  /\ max_drones = DEFAULT_DRONE_COUNT
  /\ scenario = [distances |-> SquadDistances, altitudes |-> Altitudes,
                 personalities |-> SquadPersonalities, positions |-> SquadPositions,
                 patterns |-> Patterns,
                 has_drone_sounds |-> TRUE]
  /\ now = StartTime
  /\ drones = <<1, 2>>
  /\ \E p1 \in SquadPersonalities, p2 \in SquadPersonalities,
        x1 \in SquadDistances, x2 \in SquadDistances :
        /\ p1 # p2
        /\ heap = [r \in {1, 2} |->
                     [NewDrone(r - 1, StartTime, IF r = 1 THEN x1 ELSE x2,
                               IF r = 1 THEN p1 ELSE p2)
                        EXCEPT !.state = "patrol"]]
  /\ spawn_timer = StartTime
  /\ cached = <<1, 2>>
  /\ dirty = FALSE
  /\ busy = [i \in 0..(max_drones - 1) |-> {}]
  /\ pool_active = {0, 1}
  /\ game_over = FALSE
  /\ camo_active = FALSE
  /\ camo_revealed = FALSE
  /\ camo_revealed_end = 0
  /\ drones_to_remove = <<>>
  /\ events = <<>>
  /\ calls = 0
  /\ player_x = 0

NextSquad == Frame

SpecSquad == InitSquad /\ [][NextSquad]_vars

----------------------------------------------------------------------------
(* Properties *)

\* the drone dicts that are in self.drones before and after a step
Staying == SeqToSet(drones) \cap SeqToSet(drones')

\* C1: after any sequence of operations, the state of every drone of the
\* collection is one of the nine states of the machine
C1_StateInClosedSet ==
  \A i \in 1..Len(drones) : heap[drones[i]].state \in DroneStates

\* a drone that lost its lock when the camouflage broke
C1_Witness ==
  /\ camo_revealed
  /\ \E i \in 1..Len(drones) :
       heap[drones[i]].state = "searching" /\ heap[drones[i]].state_start = now

\* C2: a drone of the collection whose health is 0 or less is destroyed
C2_DeadIsDestroyed ==
  \A i \in 1..Len(drones) :
    heap[drones[i]].health <= 0 => heap[drones[i]].state = "destroyed"

\* a drone shot down to exactly 0 health
C2_Witness ==
  \E i \in 1..Len(drones) :
    heap[drones[i]].health = 0 /\ heap[drones[i]].state = "destroyed"

\* C3: a frame removes a drone only if the drone was destroyed and none of
\* the channels of its id was playing when the frame began; elapsed time
\* alone removes nothing
C3_OnlySilentWrecksRemoved ==
  [][now' # now =>
       \A i \in 1..Len(drones) :
         drones[i] \notin SeqToSet(drones') =>
           /\ heap[drones[i]].state = "destroyed"
           /\ heap[drones[i]].id \in DOMAIN busy => busy[heap[drones[i]].id] = {}]_vars

\* the last frame removed a wreck
C3_Witness == drones_to_remove # <<>>

\* C4: winding_up is entered only from engaging, attacking only from
\* winding_up, engaging only from detecting or cooldown, cooldown only from
\* attacking, and a patrolling drone moves on to detecting only (or is shot
\* down): no path from patrol to winding_up or attacking avoids detecting
\* and then engaging
C4_AttackOnlyThroughEngaging ==
  [][\A r \in Staying :
       LET a == heap[r].state
           b == heap'[r].state
       IN /\ (b = "winding_up" /\ a # b) => a = "engaging"
          /\ (b = "attacking" /\ a # b) => a = "winding_up"
          /\ (b = "engaging" /\ a # b) => a \in {"detecting", "cooldown"}
          /\ (b = "cooldown" /\ a # b) => a = "attacking"
          /\ a = "patrol" => b \in {"patrol", "detecting", "destroyed"}]_vars

\* a drone that has come to fire
C4_Witness ==
  \E i \in 1..Len(drones) :
    heap[drones[i]].state = "attacking" /\ heap[drones[i]].burst_open

\* C5: a destroyed drone that stays in the collection stays destroyed,
\* whatever the operation
C5_DestroyedIsTerminal ==
  [][\A r \in Staying :
       heap[r].state = "destroyed" => heap'[r].state = "destroyed"]_vars

\* a wreck that a frame has left in the collection: the cache was rebuilt
\* without it
C5_Witness ==
  /\ ~dirty
  /\ \E i \in 1..Len(drones) :
       /\ heap[drones[i]].state = "destroyed"
       /\ drones[i] \notin SeqToSet(cached)

\* C6: the collection never holds more than max_drones drones; a frame adds
\* at most one drone, only when fewer than max_drones drones of the
\* collection are not destroyed and DRONE_SPAWN_INTERVAL ms have passed
\* since spawn_timer
C6_SpawnWithinCap ==
  /\ [](Len(drones) <= max_drones)
  /\ [][LET spawned == SeqToSet(drones') \ SeqToSet(drones)
        IN /\ Cardinality(spawned) <= 1
           /\ Len(drones') <= Len(drones) + 1
           /\ spawned # {} =>
                /\ Cardinality({r \in SeqToSet(drones) : heap[r].state # "destroyed"})
                     < max_drones
                /\ now' - spawn_timer >= DRONE_SPAWN_INTERVAL]_vars

\* the frame that filled the pool of two
C6_Witness ==
  /\ events # <<>>
  /\ max_drones = DEFAULT_DRONE_COUNT
  /\ Len(drones) = max_drones

\* C7: between operations the three queries answer for exactly the drones of
\* the collection that are not destroyed
C7_QueriesMatchCollection ==
  /\ GetActiveDrones = ActiveDrones(heap, drones)
  /\ \A w \in PlayerWeapons :
       GetDronesInRange(w.range)
         = SelectSeq(ActiveDrones(heap, drones), LAMBDA r : heap[r].distance <= w.range)
  /\ GetClosestDroneDistance
       = IF ActiveDrones(heap, drones) = <<>> THEN NO_DRONE_DISTANCE
         ELSE MinDistance(ActiveDrones(heap, drones))

\* C8: right after clear_all() the collection is empty and the queries
\* answer for an empty collection
C8_ClearAllEmptiesQueries ==
  [][(game_over /\ ~game_over') =>
       (/\ drones' = <<>>
        /\ GetActiveDrones' = <<>>
        /\ \A w \in PlayerWeapons : GetDronesInRange(w.range)' = <<>>
        /\ GetClosestDroneDistance' = NO_DRONE_DISTANCE)]_vars

\* C9: no drone has fired more shots than the budget of its burst
C9_ShotsWithinBudget ==
  \A i \in 1..Len(drones) :
    heap[drones[i]].shots_fired <= heap[drones[i]].shots_to_fire

\* a frustrated drone has broken its burst off and is still attacking
C9_Witness ==
  \E i \in 1..Len(drones) :
    /\ heap[drones[i]].state = "attacking"
    /\ heap[drones[i]].shots_fired >= ATTACK_MIN_SHOTS_BEFORE_ADAPT
    /\ heap[drones[i]].shots_to_fire = heap[drones[i]].shots_fired

\* C10: a drone leaves attacking only with the outcome of the burst it
\* started appended to its weapon_history
C10_BurstLoggedBeforeLeaving ==
  [][\A r \in Staying :
       (heap[r].state = "attacking" /\ heap'[r].state # "attacking")
         => ~heap'[r].burst_open]_vars

\* C11: no drone of the collection counts more hits in its burst than shots
\* fired, also once it has left attacking for cooldown, and every entry of a
\* weapon_history has hits <= shots
C11_HitsWithinShots ==
  \A i \in 1..Len(drones) :
    LET d == heap[drones[i]]
    IN /\ d.hits_this_burst <= d.shots_fired
       /\ \A k \in 1..Len(d.weapon_history) :
            d.weapon_history[k].hits <= d.weapon_history[k].shots

\* C12: the hit chance computed at the start of a burst is at least the floor
\* of 0.2 and at most the weapon's accuracy times the personality's accuracy
\* multiplier
C12_HitChanceBounded ==
  \A i \in 1..Len(drones) :
    LET d == heap[drones[i]]
    IN d.hit_chance.chance # NoVal =>
         /\ HIT_CHANCE_FLOOR <= d.hit_chance.chance
         /\ d.hit_chance.chance <= BaseAccuracy(d.hit_chance.weapon, d.personality)

\* a burst whose penalties would have taken the chance under the floor
C12_Witness ==
  \E i \in 1..Len(drones) :
    LET d == heap[drones[i]]
    IN /\ d.hit_chance.chance = HIT_CHANCE_FLOOR
       /\ HitChanceNoFloor(d.hit_chance.weapon, d.personality, d.distance,
                           d.hit_chance.altitude_diff) < HIT_CHANCE_FLOOR
       /\ d.state = "attacking"

\* the personality's aggression and evasion skill, scaled n times by the
\* wounded multipliers
RECURSIVE ScaledTimes(_, _, _)
ScaledTimes(x, pct, n) == IF n = 0 THEN x ELSE ScaledTimes((x * pct) \div 100, pct, n - 1)

\* C15: is_wounded goes from false to true only in an update that finds the
\* health at or under 25, and never back; aggression and evasion_skill change
\* only in that step, there by the wounded multipliers, so that they are the
\* personality's values scaled once on a wounded drone and not at all on the
\* others
C15_WoundedOnce ==
  [][\A r \in Staying :
       LET d == heap[r]
           e == heap'[r]
           p == DRONE_PERSONALITIES[e.personality]
           n == IF e.is_wounded THEN 1 ELSE 0
       IN /\ d.is_wounded => e.is_wounded
          /\ (~d.is_wounded /\ e.is_wounded) =>
                /\ now' > now
                /\ e.health <= WOUNDED_HEALTH_THRESHOLD
          /\ (e.aggression # d.aggression \/ e.evasion_skill # d.evasion_skill) =>
                ~d.is_wounded /\ e.is_wounded
          /\ e.aggression = ScaledTimes(p.aggression, WOUNDED_AGGRESSION_PCT, n)
          /\ e.evasion_skill = ScaledTimes(p.evasion_skill, WOUNDED_EVASION_PCT, n)
    ]_vars

\* a wounded drone that has been damaged again and updated again since the
\* update that found it wounded
C15_Witness ==
  \E i \in 1..Len(drones) :
    LET d == heap[drones[i]]
    IN /\ d.is_wounded
       /\ d.health <= 0
       /\ d.state = "destroyed"
       /\ d.aggression =
            (DRONE_PERSONALITIES[d.personality].aggression * WOUNDED_AGGRESSION_PCT) \div 100

\* C13: at the end of a tick, of two drones that are both engaging with
\* different aggression at most one has the role primary
C13_OnePrimary ==
  \A i \in 1..Len(drones) : \A j \in 1..Len(drones) :
    LET a == heap[drones[i]]
        b == heap[drones[j]]
    IN (i # j /\ a.state = "engaging" /\ b.state = "engaging"
        /\ a.aggression # b.aggression)
       => ~(a.tactic_role = "primary" /\ b.tactic_role = "primary")

\* C14: in a tick in which a drone initiates a coordinated assault, it and its
\* partner end with converge angles that are not zero and are negatives of
\* each other, and with the same hold_fire_until
C14_AssaultIsMirrored ==
  [][\A r \in Staying :
       (~heap[r].in_coordinated_assault /\ heap'[r].in_coordinated_assault) =>
         \E o \in SeqToSet(drones') :
           /\ heap'[o].id = heap'[r].assault_partner_id
           /\ o # r
           /\ heap'[r].assault_converge_angle # 0
           /\ heap'[o].assault_converge_angle = -heap'[r].assault_converge_angle
           /\ heap'[o].hold_fire_until = heap'[r].hold_fire_until
    ]_vars

\* a drone in a coordinated assault with its partner, both within the range
C14_Witness ==
  \E i \in 1..Len(drones) : \E j \in 1..Len(drones) :
    LET a == heap[drones[i]]
        b == heap[drones[j]]
    IN /\ a.in_coordinated_assault
       /\ a.assault_partner_id = b.id
       /\ a.id # b.id
       /\ a.hold_fire_until = now + COORDINATED_ASSAULT_SYNC_WINDOW
       /\ a.distance <= COORDINATED_ASSAULT_RANGE
       /\ b.distance <= COORDINATED_ASSAULT_RANGE

\* the detect range and the sound detection range at the end of a step
DetectRangeAfter ==
  IF camo_active' /\ ~camo_revealed' THEN DRONE_CAMO_DETECT_RANGE ELSE DRONE_DETECT_RANGE

SoundRangeAfter ==
  IF camo_active' /\ ~camo_revealed'
  THEN (SOUND_DETECTION_RANGE * CAMO_SOUND_DETECTION_RANGE_PCT) \div 100
  ELSE SOUND_DETECTION_RANGE

\* the drone r goes from patrol to detecting in the step
PatrolDetects(r) == heap[r].state = "patrol" /\ heap'[r].state = "detecting"

\* C16 as stated: no operation moves a patrol drone to detecting while it is
\* farther than the detect range
C16_DetectOnlyInRange ==
  [][\A r \in Staying : PatrolDetects(r) => heap'[r].distance <= DetectRangeAfter]_vars

\* C16 amended: in an update, a patrol drone stays in patrol if it is farther
\* than the detect range and goes to detecting if it is not; outside an
\* update, a patrol drone goes to detecting only on the player's fire, within
\* the sound detection range, or on the distress beacon of another drone that
\* was just hit, within the distress alert range
C16_DetectInRangeOrAlerted ==
  [][\A r \in Staying :
       /\ (heap[r].state = "patrol" /\ now' > now) =>
             heap'[r].state = IF heap'[r].distance <= DetectRangeAfter
                              THEN "detecting" ELSE "patrol"
       /\ (PatrolDetects(r) /\ now' = now) =>
             \/ /\ \A o \in Staying : heap'[o].health = heap[o].health
                /\ heap'[r].distance <= SoundRangeAfter
             \/ /\ \E o \in Staying \ {r} :
                     /\ heap'[o].health < heap[o].health
                     /\ ~heap[o].distress_active /\ heap'[o].distress_active
                /\ heap'[r].distance <= DISTRESS_ALERT_RANGE
    ]_vars

\* a drone that has just been alerted farther away than the detect range
C16_Witness ==
  \E i \in 1..Len(drones) :
    LET d == heap[drones[i]]
    IN /\ d.state = "detecting"
       /\ d.state_start = now
       /\ d.distance > DRONE_DETECT_RANGE
       /\ calls > 0

\* C17: whenever a step changes the state of a drone to detecting or to
\* engaging, the drone's last known position is, at the end of the step, the
\* player's position that the operation used
C17_LastKnownRefreshed ==
  [][\A r \in Staying :
       (heap'[r].state # heap[r].state /\ heap'[r].state \in {"detecting", "engaging"})
         => heap'[r].last_known = [of |-> "player", x |-> player_x']
    ]_vars

\* C18: a drone that has just selected a weapon, for the wind-up or the burst
\* it entered in this update, is at a distance inside the band that its
\* personality configures for that weapon
C18_WeaponWithinBand ==
  \A i \in 1..Len(drones) :
    LET d == heap[drones[i]]
        band == PERSONALITY_WEAPON_PREFS[d.personality][d.attack_weapon]
    IN (/\ d.state \in {"winding_up", "attacking"}
        /\ d.state_start = now
        /\ ~game_over
        /\ d.attack_weapon \in WeaponNames)
       => (band[1] <= d.distance /\ d.distance <= band[2])

C20_WeaponKept ==
  [][\A r \in Staying :
       (heap[r].state \in {"winding_up", "attacking"} /\ heap'[r].state = "attacking")
         => heap'[r].attack_weapon = heap[r].attack_weapon
    ]_vars

\* C21: the duration that governs the stay of a drone in detecting is between
\* DRONE_DETECT_DURATION_MIN (800) and DRONE_DETECT_DURATION_MAX (1500) plus
\* at most the longest hesitation (600), however the drone entered detecting
C21_DetectDurationInRange ==
  \A i \in 1..Len(drones) :
    LET d == heap[drones[i]]
    IN (d.state = "detecting" /\ d.state_duration # NoVal) =>
         /\ DRONE_DETECT_DURATION_MIN <= d.state_duration
         /\ d.state_duration <= DRONE_DETECT_DURATION_MAX + HESITATION_MAX

\* C22: at the end of an update no drone is in cooldown DRONE_COOLDOWN_MAX
\* (2000 ms) or more after it entered cooldown
C22_CooldownLeavesByMax ==
  \A i \in 1..Len(drones) :
    LET d == heap[drones[i]]
    IN d.state = "cooldown" => now - d.state_start < DRONE_COOLDOWN_MAX

\* C23: the waypoint list of a searching drone, when it is not empty, ends
\* with the drone's current last known player position
C23_WaypointsEndAtLastKnown ==
  \A i \in 1..Len(drones) :
    LET d == heap[drones[i]]
    IN (d.state = "searching" /\ d.search_waypoints # <<>>) =>
         d.search_waypoints[Len(d.search_waypoints)] = d.last_known

\* C28: a drone goes from searching to patrol only when its search timeout has
\* elapsed or when it has visited every waypoint of its list
C28_PatrolAfterTimeoutOrLastWaypoint ==
  [][\A r \in Staying :
       (heap[r].state = "searching" /\ heap'[r].state = "patrol") =>
         \/ now' - heap[r].state_start >=
              (IF heap[r].state_duration = NoVal THEN DRONE_SEARCH_TIMEOUT_MIN
               ELSE heap[r].state_duration)
         \/ heap'[r].search_waypoint_index >=
              (IF heap[r].search_pattern = "none" THEN 5
               ELSE Len(heap[r].search_waypoints))
    ]_vars

\* C29: the radius multiplier of a searching drone never exceeds
\* SEARCH_EXPAND_MAX_MULT, and its expansion count is no more than the
\* expansions that fit in the time since it entered searching
C29_ExpansionCappedAndFresh ==
  \A i \in 1..Len(drones) :
    LET d == heap[drones[i]]
    IN (d.state = "searching" /\ d.search_pattern # "none") =>
         /\ ExpandMultiplier(d.search_expand_count) <= SEARCH_EXPAND_MAX_MULT_PCT
         /\ d.search_expand_count * SEARCH_EXPAND_INTERVAL <= now - d.state_start

\* C24: the health of every drone stays between 0 and 100
C24_HealthInRange ==
  \A r \in DOMAIN heap : heap[r].health >= 0 /\ heap[r].health <= 100

\* the camouflage is effective at the end of a step
CamoEffectiveAfter == camo_active' /\ ~camo_revealed'

\* what an update does to an unsuppressed drone r, given the three ranges:
\* patrol detects within detect, engaging loses track beyond lose, searching
\* reacquires within reacquire, and not otherwise
RangesUsed(r, detect, lose, reacquire) ==
  /\ heap[r].state = "patrol" =>
        (heap'[r].state = "detecting" <=> heap'[r].distance <= detect)
  /\ heap[r].state = "engaging" =>
        (heap'[r].state = "searching" <=> heap'[r].distance > lose)
  /\ heap[r].state = "searching" =>
        (heap'[r].state = "detecting" <=> heap'[r].distance <= reacquire)

C26_SuppressedHoldsFire ==
  [][\A r \in Staying :
       (now' > now /\ heap[r].is_suppressed /\ now' < heap[r].suppression_end_time) =>
         /\ heap'[r].shots_fired = heap[r].shots_fired
         /\ heap'[r].state \in {"winding_up", "attacking"} =>
               heap'[r].state = heap[r].state
    ]_vars

\* a drone that was suppressed while it wound up or fired has been through an
\* update since and is still suppressed
C26_Witness ==
  \E i \in 1..Len(drones) :
    LET d == heap[drones[i]]
    IN /\ d.state \in {"winding_up", "attacking"}
       /\ d.is_suppressed
       /\ now < d.suppression_end_time
       /\ now > d.suppression_end_time - SUPPRESSION_DURATION_MIN

\* C27: the suppression_end_time of a suppressed drone is never changed; the
\* update that ends a suppression at time t sets the cooldown to end at
\* t + SUPPRESSION_COOLDOWN, nothing else changes it, and no hit makes the
\* drone suppressed again before that time
C27_SuppressionCooldown ==
  [][\A r \in Staying :
       /\ heap[r].is_suppressed =>
             heap'[r].suppression_end_time = heap[r].suppression_end_time
       /\ heap'[r].suppression_cooldown_end =
             IF heap[r].is_suppressed /\ ~heap'[r].is_suppressed
             THEN now' + SUPPRESSION_COOLDOWN
             ELSE heap[r].suppression_cooldown_end
       /\ (heap[r].is_suppressed /\ ~heap'[r].is_suppressed) =>
             (now' > now /\ now' >= heap[r].suppression_end_time)
       /\ (~heap[r].is_suppressed /\ heap'[r].is_suppressed) =>
             now' >= heap[r].suppression_cooldown_end
    ]_vars

\* a drone whose suppression has ended was hit hard during the cooldown and
\* is not suppressed
C27_Witness ==
  \E i \in 1..Len(drones) :
    LET d == heap[drones[i]]
    IN /\ ~d.is_suppressed
       /\ now < d.suppression_cooldown_end
       /\ d.damage_window_start > d.suppression_cooldown_end - SUPPRESSION_COOLDOWN
       /\ d.recent_damage >= SUPPRESSION_DAMAGE_THRESHOLD
       /\ d.health > 0

\* the distress beacon of the drone o activates in the step
BeaconActivates(o) == ~heap[o].distress_active /\ heap'[o].distress_active

C31_AssaultInitiatedOnce ==
  \A i, j \in 1..Len(drones) :
    LET a == heap[drones[i]]
        b == heap[drones[j]]
    IN i # j =>
         ~(/\ a.in_coordinated_assault /\ a.assault_partner_id = b.id
           /\ b.in_coordinated_assault /\ b.assault_partner_id = a.id)

\* C32: a step that applies the camouflage confusion or the forced loss of
\* track to a drone leaves the drone in a state that a second application at
\* the same time does not change (state, state_start and confused_until)
C32_ForcedTransitionsIdempotent ==
  [][\A r \in Staying :
       now' = now =>
         /\ heap'[r] = ConfuseDrone(heap[r], now) =>
               ConfuseDrone(heap'[r], now) = heap'[r]
         /\ heap'[r] = LoseTrack(heap[r], now) =>
               LoseTrack(heap'[r], now) = heap'[r]
    ]_vars

\* the camouflage has just been broken and a drone has been confused by it
C32_Witness ==
  /\ camo_active /\ camo_revealed
  /\ camo_revealed_end = now + CAMO_REVEAL_DURATION
  /\ \E i \in 1..Len(drones) :
       LET d == heap[drones[i]]
       IN /\ d.state = "searching" /\ d.state_start = now
          /\ d.confused_until = now + CAMO_CONFUSION_DURATION

\* C33: the FSM update of a drone does not run in the update that spawned it:
\* at the end of that update the drone is as _spawn_drone made it, in state
\* spawning with no state_duration drawn yet
C33_SpawnedDroneNotUpdated ==
  [][\A r \in SeqToSet(drones') \ SeqToSet(drones) :
       /\ heap'[r].state = "spawning"
       /\ heap'[r].state_start = now'
       /\ heap'[r].state_duration = NoVal
    ]_vars

\* C34: with or without sounds an update performs the same spawns and the
\* same transitions: an update that is due to spawn a drone spawns it, and a
\* drone that has been spawning for DRONE_SPAWN_DURATION_MAX goes to patrol
C34_LogicWithoutSounds ==
  [][now' > now =>
       /\ (/\ now' - spawn_timer >= DRONE_SPAWN_INTERVAL
           /\ Len(ActiveDrones(heap, drones)) < max_drones
           /\ Len(drones) < max_drones)
            => (events' # <<>> /\ spawn_timer' = now')
       /\ \A r \in Staying :
            (heap[r].state = "spawning"
               /\ now' - heap[r].state_start >= DRONE_SPAWN_DURATION_MAX)
              => heap'[r].state = "patrol"
    ]_vars

\* C35: the drones of the collection have pairwise distinct ids
C35_DistinctIds ==
  \A i, j \in 1..Len(drones) :
    i # j => heap[drones[i]].id # heap[drones[j]].id

\* the dict r is a wreck in the collection
WreckInList(r) == r \in SeqToSet(drones) /\ heap[r].state = "destroyed"

\* C36: every destroyed drone is eventually removed from the collection (or
\* the game ends, after which update() is no longer called)
C36_WrecksRemoved ==
  \A r \in 1..(2 * DEFAULT_DRONE_COUNT) :
    WreckInList(r) ~> (~WreckInList(r) \/ game_over)

\* C37: a drone is destroyed at most once: damage_drone is never applied to a
\* drone that is already destroyed, so a step that lowers the health of a drone
\* (and with a kill plays the explosion and the debris) starts from a drone
\* that is not destroyed
C37_DestroyedOnce ==
  [][\A r \in Staying :
       heap'[r].health < heap[r].health => heap[r].state # "destroyed"
    ]_vars

\* C38: the stored speed of a drone never exceeds its speed at spawn
\* multiplied once by DISTRESS_RESPONSE_SPEED_MULT
C38_SpeedBounded ==
  \A i \in 1..Len(drones) :
    heap[drones[i]].speed <= (SpawnSpeed * DISTRESS_RESPONSE_SPEED_MULT_PCT) \div 100

\* C39: a drone that enters attacking while it is out of the range of every
\* weapon (the burst initialisation yields no weapon) has no shot left to
\* fire in that stay: no budget of an earlier burst is left over
C39_NoShotWithoutBurst ==
  [][\A r \in Staying :
       (/\ heap[r].state # "attacking" /\ heap'[r].state = "attacking"
        /\ SelectWeapon(heap'[r]) = {"none"})
         => heap'[r].shots_fired >= heap'[r].shots_to_fire
    ]_vars

\* the drone of the collection that carries the id p, if there is one
Partners(p) == {o \in SeqToSet(drones) : heap[o].id = p}

\* C40: a drone in a coordinated assault and the drone recorded as its
\* assault partner have converge angles that are not 0 and of opposite sign
C40_PartnersOpposite ==
  \A r \in SeqToSet(drones) :
    heap[r].in_coordinated_assault =>
      \A o \in Partners(heap[r].assault_partner_id) :
        heap[r].assault_converge_angle * heap[o].assault_converge_angle < 0
====
